---- MODULE Spec2Model ----
(***************************************************************************)
(* Product performance optimizer: the orchestrator's consolidation of      *)
(* recommendations and traffic-light status, the SKU rationalization       *)
(* (zombie) scoring and the pairwise view-correlation / customer-overlap   *)
(* statistics, modelled from the Python sources.                           *)
(*                                                                         *)
(* Tables (pandas DataFrames) are records [columns, rows] with rows a      *)
(* sequence of records.  Ratios are kept exact as [num, den] pairs and     *)
(* compared by cross multiplication.  A value that may be NaN is <<>> for  *)
(* NaN and <<v>> otherwise.                                                *)
(***************************************************************************)
EXTENDS Integers, Sequences, FiniteSets, TLC

VARIABLES
    sales_data,           \* SalesRecord rows fetched by the connector
    inventory_data,       \* InventorySnapshot rows
    product_info,         \* Product rows
    product_views,        \* ViewEvent rows
    customer_overlap,     \* PurchaseEvent rows
    results,              \* the result bundle of run_full_analysis
    consolidated_recommendations,
    all_skus,             \* local of _generate_traffic_light_status
    status_map,           \* local / result of _generate_traffic_light_status
    pc,                   \* position in the run
    row                   \* index of the next row of the rule being applied

vars == <<sales_data, inventory_data, product_info, product_views,
          customer_overlap, results, consolidated_recommendations,
          all_skus, status_map, pc, row>>

(***************************************************************************)
(* Bounds                                                                  *)
(***************************************************************************)
NumSkus == 2
SKUS == 1..NumSkus

(***************************************************************************)
(* Generic helpers                                                         *)
(***************************************************************************)
Range(s) == { s[i] : i \in 1..Len(s) }

Min(S) == CHOOSE x \in S : \A y \in S : x <= y

RECURSIVE SeqOfSet(_)
\* the elements of a finite set of integers in increasing order
SeqOfSet(S) == IF S = {} THEN <<>>
               ELSE LET m == Min(S) IN <<m>> \o SeqOfSet(S \ {m})

RECURSIVE FlatMap(_, _)
\* concatenation of F[x] for x along seq
FlatMap(F, seq) == IF seq = <<>> THEN <<>>
                   ELSE F[Head(seq)] \o FlatMap(F, Tail(seq))

\* itertools.combinations(seq, 2): pairs of positions i < j in lexicographic order
Combinations(seq) ==
    LET n == Len(seq)
        PairsFrom == [ i \in 1..n |-> [ k \in 1..(n - i) |-> <<seq[i], seq[i + k]>> ] ]
    IN  FlatMap(PairsFrom, [ i \in 1..n |-> i ])

Frame(cols, rws) == [columns |-> cols, rows |-> rws]

\* pd.DataFrame(): no columns, no rows
EmptyFrame == Frame({}, <<>>)

\* dict.get(key, pd.DataFrame())
GetFrame(analysis_result, key) ==
    IF key \in DOMAIN analysis_result.frames
    THEN analysis_result.frames[key] ELSE EmptyFrame

(***************************************************************************)
(* Result bundle (orchestrator.py run_full_analysis)                       *)
(*                                                                         *)
(* results is a function on the keys of the Python dict; ResultKeys is the *)
(* dict's insertion order.  An analysis result is a record with            *)
(* kind = "dict", its DataFrames under frames, and, when the analyzer       *)
(* returns one, a recommendations list.  A recommendation is a record      *)
(* [type, priority, action]; action abstracts the text as                  *)
(* [id, says_sku, skus]: says_sku is ('sku' in action.lower()), skus the   *)
(* sku values that occur in the text.                                      *)
(***************************************************************************)
AnalysisNames == <<"sku_rationalization", "contribution_margin",
                   "slow_mover_detection", "cannibalization",
                   "new_product_scoring", "bundle_opportunities">>

ResultKeys == <<"platform", "analysis_date", "analysis_period_days">> \o AnalysisNames

Scalar == [kind |-> "scalar"]

\* isinstance(analysis_result, dict)
IsDict(v) == v.kind = "dict"

HasRecommendations(v) == IsDict(v) /\ "recommendations" \in DOMAIN v

(***************************************************************************)
(* _consolidate_recommendations                                            *)
(***************************************************************************)
PriorityRankFlipped(rec) ==
    CASE rec.priority = "critical" -> 3
      [] rec.priority = "high"     -> 2
      [] rec.priority = "medium"   -> 1
      [] OTHER                     -> 0

\* priority_order.get(x.get('priority', 'low'), 3)
PriorityRank(rec) ==
    CASE rec.priority = "critical" -> 0
      [] rec.priority = "high"     -> 1
      [] rec.priority = "medium"   -> 2
      [] rec.priority = "low"      -> 3
      [] OTHER                     -> 3

\* rec['source_analysis'] = analysis_name
Tag(rec, analysis_name) ==
    [ f \in (DOMAIN rec) \cup {"source_analysis"} |->
        IF f = "source_analysis" THEN analysis_name ELSE rec[f] ]

TagAll(recs, analysis_name) == [ i \in 1..Len(recs) |-> Tag(recs[i], analysis_name) ]

\* the result bundle after the loop has tagged the records in place
TaggedResults(res) ==
    [ k \in DOMAIN res |->
        IF HasRecommendations(res[k])
        THEN [res[k] EXCEPT !.recommendations = TagAll(@, k)]
        ELSE res[k] ]

\* all_recommendations after the collecting loop: dict order, then list order
CollectRecommendations(res) ==
    LET PerKey == [ k \in Range(ResultKeys) |->
                      IF k \in DOMAIN res /\ HasRecommendations(res[k])
                      THEN TagAll(res[k].recommendations, k) ELSE <<>> ]
    IN  FlatMap(PerKey, SelectSeq(ResultKeys, LAMBDA k : k \in DOMAIN res))

RECURSIVE InsertBeforeEqual(_, _)
InsertBeforeEqual(x, s) ==
    IF s = <<>> THEN <<x>>
    ELSE IF PriorityRank(Head(s)) < PriorityRank(x)
         THEN <<Head(s)>> \o InsertBeforeEqual(x, Tail(s))
         ELSE <<x>> \o s

RECURSIVE InsertSorted(_, _)
\* list.sort on a short list is a binary insertion sort: the new element goes
\* after every element whose key is not greater
InsertSorted(x, s) ==
    IF s = <<>> THEN <<x>>
    ELSE IF PriorityRank(Head(s)) <= PriorityRank(x)
         THEN <<Head(s)>> \o InsertSorted(x, Tail(s))
         ELSE <<x>> \o s

RECURSIVE SortFrom(_, _)
SortFrom(sorted, rest) ==
    IF rest = <<>> THEN sorted
    ELSE SortFrom(InsertSorted(Head(rest), sorted), Tail(rest))

\* all_recommendations.sort(key=priority rank)
SortByPriority(recs) == SortFrom(<<>>, recs)

ConsolidateRecommendationsOf(res) == SortByPriority(CollectRecommendations(res))

(***************************************************************************)
(* _generate_traffic_light_status                                          *)
(***************************************************************************)
FrameSkus(f) == { f.rows[i].sku : i \in 1..Len(f.rows) }

\* all_skus: the 'sku' column of every DataFrame of every analysis result
CollectSkus(res) ==
    UNION { UNION { FrameSkus(res[a].frames[k])
                    : k \in { k \in DOMAIN res[a].frames :
                                "sku" \in res[a].frames[k].columns } }
            : a \in { a \in DOMAIN res : IsDict(res[a]) } }

InitialStatusMap(skus) ==
    [ s \in skus |-> [sku |-> s, status |-> "green", issues |-> <<>>,
                      recommendations |-> <<>>] ]

ApplyZombieRowWithoutIssue(sm, r) ==
    IF r.sku \in DOMAIN sm
    THEN [sm EXCEPT ![r.sku].status = "red"]
    ELSE sm

ApplyZombieRow(sm, r) ==
    IF r.sku \in DOMAIN sm
    THEN [sm EXCEPT ![r.sku].status = "red",
                    ![r.sku].issues = Append(@, "Zombie product")]
    ELSE sm

ApplyLoserRowAlways(sm, r) ==
    IF r.sku \in DOMAIN sm
    THEN [sm EXCEPT ![r.sku].status = "yellow",
                    ![r.sku].issues = Append(@, "Losing money")]
    ELSE sm

ApplyLoserRowOnEscalation(sm, r) ==
    IF r.sku \in DOMAIN sm
    THEN IF sm[r.sku].status # "red"
         THEN [sm EXCEPT ![r.sku].status = "yellow",
                         ![r.sku].issues = Append(@, "Losing money")]
         ELSE sm
    ELSE sm

ApplyLoserRow(sm, r) ==
    IF r.sku \in DOMAIN sm
    THEN [sm EXCEPT ![r.sku].status = IF @ # "red" THEN "yellow" ELSE @,
                    ![r.sku].issues = Append(@, "Losing money")]
    ELSE sm

ApplyCriticalRowIfGreen(sm, r) ==
    IF r.sku \in DOMAIN sm
    THEN [sm EXCEPT ![r.sku].status = IF @ = "green" THEN "red" ELSE @,
                    ![r.sku].issues = Append(@, "Critical slow mover")]
    ELSE sm

ApplyCriticalRow(sm, r) ==
    IF r.sku \in DOMAIN sm
    THEN [sm EXCEPT ![r.sku].status = "red",
                    ![r.sku].issues = Append(@, "Critical slow mover")]
    ELSE sm

ApplyUnderperformerRowAlways(sm, r) ==
    IF r.sku \in DOMAIN sm
    THEN [sm EXCEPT ![r.sku].status = "yellow",
                    ![r.sku].issues = Append(@, "Underperforming new product")]
    ELSE sm

ApplyUnderperformerRow(sm, r) ==
    IF r.sku \in DOMAIN sm /\ sm[r.sku].status = "green"
    THEN [sm EXCEPT ![r.sku].status = "yellow",
                    ![r.sku].issues = Append(@, "Underperforming new product")]
    ELSE sm

\* the four rule blocks in the order of the code
RuleOrder == <<"zombies", "losers", "slow", "new">>

\* the rows a rule block iterates over
RuleRows(res, rule) ==
    CASE rule = "zombies" ->
           IF "sku_rationalization" \in DOMAIN res
           THEN GetFrame(res["sku_rationalization"], "zombie_skus").rows ELSE <<>>
      [] rule = "losers" ->
           IF "contribution_margin" \in DOMAIN res
           THEN GetFrame(res["contribution_margin"], "money_losers").rows ELSE <<>>
      [] rule = "slow" ->
           IF "slow_mover_detection" \in DOMAIN res
           THEN SelectSeq(GetFrame(res["slow_mover_detection"], "slow_movers").rows,
                          LAMBDA r : r.urgency = "critical")
           ELSE <<>>
      [] rule = "new" ->
           IF "new_product_scoring" \in DOMAIN res
           THEN GetFrame(res["new_product_scoring"], "underperformers").rows ELSE <<>>

ApplyRuleRow(rule, sm, r) ==
    CASE rule = "zombies" -> ApplyZombieRow(sm, r)
      [] rule = "losers"  -> ApplyLoserRow(sm, r)
      [] rule = "slow"    -> ApplyCriticalRow(sm, r)
      [] rule = "new"     -> ApplyUnderperformerRow(sm, r)

RECURSIVE ApplyRows(_, _, _)
ApplyRows(rule, sm, rws) ==
    IF rws = <<>> THEN sm
    ELSE ApplyRows(rule, ApplyRuleRow(rule, sm, Head(rws)), Tail(rws))

RECURSIVE ApplyRules(_, _, _)
\* the rule blocks applied one after the other in the given order
ApplyRules(order, sm, res) ==
    IF order = <<>> THEN sm
    ELSE ApplyRules(Tail(order), ApplyRows(Head(order), sm, RuleRows(res, Head(order))), res)

\* the "Add recommendations" loop: a record goes to every sku of all_skus whose
\* text occurs in an action that mentions the word sku
AttachRecommendations(sm, recs) ==
    [ s \in DOMAIN sm |->
        [sm[s] EXCEPT !.recommendations =
            @ \o SelectSeq(recs, LAMBDA rec : rec.action.says_sku /\ s \in rec.action.skus)] ]

NextStage(stage) ==
    CASE stage = "zombies" -> "losers"
      [] stage = "losers"  -> "slow"
      [] stage = "slow"    -> "new"
      [] stage = "new"     -> "recs"

\* results['consolidated_recommendations'] = self._consolidate_recommendations(results)
ConsolidateRecommendations ==
    /\ pc = "consolidate"
    /\ consolidated_recommendations' = ConsolidateRecommendationsOf(results)
    /\ results' = TaggedResults(results)
    /\ pc' = "collect"
    /\ UNCHANGED <<sales_data, inventory_data, product_info, product_views,
                   customer_overlap, all_skus, status_map, row>>

\* lines 153-171: collect the skus and initialise every entry to green
InitStatusMap ==
    /\ pc = "collect"
    /\ all_skus' = CollectSkus(results)
    /\ status_map' = InitialStatusMap(CollectSkus(results))
    /\ pc' = "zombies"
    /\ row' = 1
    /\ UNCHANGED <<sales_data, inventory_data, product_info, product_views,
                   customer_overlap, results, consolidated_recommendations>>

\* one iteration of the row loop of the current rule block
ApplyRow ==
    /\ pc \in Range(RuleOrder)
    /\ row <= Len(RuleRows(results, pc))
    /\ status_map' = ApplyRuleRow(pc, status_map, RuleRows(results, pc)[row])
    /\ row' = row + 1
    /\ UNCHANGED <<sales_data, inventory_data, product_info, product_views,
                   customer_overlap, results, consolidated_recommendations,
                   all_skus, pc>>

\* the row loop of the current rule block is exhausted
EndRule ==
    /\ pc \in Range(RuleOrder)
    /\ row > Len(RuleRows(results, pc))
    /\ pc' = NextStage(pc)
    /\ row' = 1
    /\ UNCHANGED <<sales_data, inventory_data, product_info, product_views,
                   customer_overlap, results, consolidated_recommendations,
                   all_skus, status_map>>

\* lines 206-216
AddRecommendations ==
    /\ pc = "recs"
    /\ status_map' = AttachRecommendations(status_map, consolidated_recommendations)
    /\ pc' = "done"
    /\ UNCHANGED <<sales_data, inventory_data, product_info, product_views,
                   customer_overlap, results, consolidated_recommendations,
                   all_skus, row>>

(***************************************************************************)
(* Status specification: the run from the result bundle onwards            *)
(* (run_full_analysis lines 124-130), over result bundles whose tables     *)
(* carry the sku columns the analyzers derive from the input tables.       *)
(* Every sku has an origin (the input tables it occurs in) and the flags   *)
(* the analyzers may have given it.                                        *)
(***************************************************************************)
Origin(s, i, n, v, p) == [sales |-> s, inventory |-> i, info |-> n, views |-> v, purchases |-> p]

Origins == { Origin(FALSE, TRUE,  "none", FALSE, TRUE),
             Origin(TRUE,  TRUE,  "new",  TRUE,  TRUE),
             Origin(FALSE, FALSE, "new",  FALSE, TRUE),
             Origin(FALSE, FALSE, "old",  FALSE, TRUE),
             Origin(FALSE, FALSE, "none", TRUE,  TRUE),
             Origin(FALSE, FALSE, "none", FALSE, TRUE),
             Origin(FALSE, FALSE, "none", TRUE,  FALSE) }

\* the cannibalization analysis raises unless two skus have purchases, the
\* bundle analysis raises when exactly one sku has views: only the other runs
\* reach a result bundle
RunCompletes(prof) ==
    /\ Cardinality({ s \in DOMAIN prof : prof[s].origin.purchases }) >= 2
    /\ Cardinality({ s \in DOMAIN prof : prof[s].origin.views }) # 1

Profiles ==
    { p \in [origin : Origins, zombie : BOOLEAN, loser : BOOLEAN,
             slow : {"none", "high", "critical"}, under : BOOLEAN] :
        /\ p.zombie => (p.origin.sales \/ p.origin.inventory)
        /\ p.loser => p.origin.sales
        /\ (p.slow # "none") => (p.origin.sales \/ p.origin.inventory)
        /\ (p.slow = "high") => ~p.origin.sales
        /\ p.under => (p.origin.info = "new") }

SkuRows(S) == LET q == SeqOfSet(S) IN [ i \in 1..Len(q) |-> [sku |-> q[i]] ]

SkuFrame(S) == Frame({"sku"}, SkuRows(S))

PairRows(S) ==
    LET c == Combinations(SeqOfSet(S))
    IN  [ i \in 1..Len(c) |-> [sku1 |-> c[i][1], sku2 |-> c[i][2]] ]

\* pd.DataFrame(list of pair dicts): no columns at all when the list is empty
PairFrame(S) == IF PairRows(S) = <<>> THEN EmptyFrame
                ELSE Frame({"sku1", "sku2"}, PairRows(S))

\* a recommendation whose action names the given skus
Rec(type, priority, id, says_sku, skus) ==
    [type |-> type, priority |-> priority,
     action |-> [id |-> id, says_sku |-> says_sku, skus |-> skus]]

\* the result bundle of a run whose skus have the given profiles
BundleOf(prof, recsOf, insights) ==
    LET inSales  == { s \in SKUS : prof[s].origin.sales }
        inInv    == { s \in SKUS : prof[s].origin.inventory }
        newSkus  == { s \in SKUS : prof[s].origin.info = "new" }
        merged   == inSales \cup inInv
        slow     == SeqOfSet({ s \in SKUS : prof[s].slow # "none" })
    IN  [ k \in Range(ResultKeys) |->
          CASE k = "sku_rationalization" ->
                 [kind |-> "dict",
                  frames |-> [zombie_skus |-> IF merged = {} THEN EmptyFrame
                                              ELSE SkuFrame({ s \in SKUS : prof[s].zombie }),
                              metrics |-> SkuFrame(merged)],
                  recommendations |-> recsOf[k],
                  summary |-> [total_zombies |->
                                 IF merged = {} THEN 0
                                 ELSE Cardinality({ s \in SKUS : prof[s].zombie })]]
            [] k = "contribution_margin" ->
                 [kind |-> "dict",
                  frames |-> [ranked_products |-> SkuFrame(inSales),
                              money_losers |-> SkuFrame({ s \in SKUS : prof[s].loser })],
                  insights |-> insights,
                  summary |-> [total_skus |-> Cardinality(inSales),
                               losing_skus |-> Cardinality({ s \in SKUS : prof[s].loser })]]
            [] k = "slow_mover_detection" ->
                 [kind |-> "dict",
                  frames |-> [velocity_analysis |-> SkuFrame(merged),
                              slow_movers |->
                                Frame({"sku", "urgency"},
                                      [ i \in 1..Len(slow) |->
                                          [sku |-> slow[i], urgency |-> prof[slow[i]].slow] ])],
                  recommendations |-> recsOf[k],
                  summary |-> [total_skus_analyzed |-> Cardinality(merged),
                               slow_movers_count |-> Len(slow)]]
            [] k = "cannibalization" ->
                 [kind |-> "dict",
                  frames |-> [overlap_matrix |-> PairFrame({ s \in SKUS : prof[s].origin.purchases }),
                              cannibalization_pairs |-> PairFrame({ s \in SKUS : prof[s].origin.purchases })],
                  recommendations |-> recsOf[k],
                  summary |-> [total_pairs_analyzed |->
                                 Len(PairRows({ s \in SKUS : prof[s].origin.purchases }))]]
            [] k = "new_product_scoring" ->
                 IF newSkus = {}
                 THEN [kind |-> "dict",
                       frames |-> [new_products |-> EmptyFrame, scores |-> EmptyFrame],
                       recommendations |-> recsOf[k],
                       summary |-> [new_products_count |-> 0]]
                 ELSE [kind |-> "dict",
                       frames |-> [new_products |-> SkuFrame(newSkus),
                                   scores |-> SkuFrame(newSkus),
                                   underperformers |-> SkuFrame({ s \in SKUS : prof[s].under })],
                       recommendations |-> recsOf[k],
                       summary |-> [new_products_count |-> Cardinality(newSkus),
                                    underperformers_count |->
                                      Cardinality({ s \in SKUS : prof[s].under })]]
            [] k = "bundle_opportunities" ->
                 [kind |-> "dict",
                  frames |-> [view_correlations |-> PairFrame({ s \in SKUS : prof[s].origin.views }),
                              bundle_opportunities |-> PairFrame({ s \in SKUS : prof[s].origin.views })],
                  recommendations |-> recsOf[k],
                  summary |-> [opportunities_count |->
                                 Len(PairRows({ s \in SKUS : prof[s].origin.views }))]]
            [] OTHER -> Scalar ]

\* "Discontinue SKU: 1" and a bundle action whose text names sku 1 without
\* the word sku
StatusRecLists ==
    { <<Rec("discontinue_sku", "high", 1, TRUE, {1}),
        Rec("create_bundle", "medium", 2, FALSE, {1})>> }

InitStatus ==
    \E prof \in [SKUS -> Profiles] : \E recs \in StatusRecLists :
        /\ RunCompletes(prof)
        /\ sales_data = SkuRows({ s \in SKUS : prof[s].origin.sales })
        /\ inventory_data = SkuRows({ s \in SKUS : prof[s].origin.inventory })
        /\ product_info = SkuRows({ s \in SKUS : prof[s].origin.info # "none" })
        /\ product_views = SkuRows({ s \in SKUS : prof[s].origin.views })
        /\ customer_overlap = SkuRows({ s \in SKUS : prof[s].origin.purchases })
        /\ results = BundleOf(prof,
                               [ a \in Range(AnalysisNames) |->
                                   IF a = "sku_rationalization" THEN recs ELSE <<>> ],
                               <<>>)
        /\ consolidated_recommendations = <<>>
        /\ all_skus = {}
        /\ status_map = <<>>
        /\ pc = "consolidate"
        /\ row = 1

NextStatus ==
    \/ ConsolidateRecommendations
    \/ InitStatusMap
    \/ ApplyRow
    \/ EndRule
    \/ AddRecommendations

SpecStatus == InitStatus /\ [][NextStatus]_vars

(***************************************************************************)
(* Properties of the status map                                            *)
(***************************************************************************)
Severity(st) == CASE st = "green" -> 0 [] st = "yellow" -> 1 [] st = "red" -> 2

HasIssue(entry, text) == \E i \in 1..Len(entry.issues) : entry.issues[i] = text

\* C1: in every step of the rule application no sku's status moves to a lower
\* severity (red > yellow > green): once red it stays red, once yellow it never
\* returns to green.
C1_StatusNeverDowngraded ==
    [][ \A s \in (DOMAIN status_map) \cap (DOMAIN status_map') :
            Severity(status_map'[s].status) >= Severity(status_map[s].status) ]_vars

\* the money-loser rule has acted on a sku that the zombie rule had made red,
\* and an underperformer rule row has met a sku that was already yellow or red
C1_Witness ==
    /\ pc = "done"
    /\ \E s \in DOMAIN status_map :
          /\ status_map[s].status = "red"
          /\ HasIssue(status_map[s], "Zombie product")
          /\ HasIssue(status_map[s], "Losing money")
    /\ \E s \in DOMAIN status_map :
          /\ status_map[s].status = "yellow"
          /\ HasIssue(status_map[s], "Losing money")
          /\ s \in FrameSkus(GetFrame(results["new_product_scoring"], "underperformers"))

RulePermutations ==
    { p \in [1..Len(RuleOrder) -> Range(RuleOrder)] :
        \A i, j \in 1..Len(RuleOrder) : i # j => p[i] # p[j] }

\* C2: for the zombie, money-loser, critical-slow-mover and underperformer sets
\* of the run, applying the four rule blocks in any permutation of their order
\* gives every sku the final status the code's order gives it.
C2_StatusOrderIndependent ==
    pc = "done" =>
        \A p \in RulePermutations : \A s \in DOMAIN status_map :
            ApplyRules(p, InitialStatusMap(all_skus), results)[s].status
                = status_map[s].status

\* a finished run in which one sku is in a red set and a yellow set at once and
\* another is in both yellow sets
C2_Witness ==
    /\ pc = "done"
    /\ \E s \in DOMAIN status_map :
          /\ s \in FrameSkus(GetFrame(results["contribution_margin"], "money_losers"))
          /\ s \in FrameSkus(GetFrame(results["new_product_scoring"], "underperformers"))
          /\ HasIssue(status_map[s], "Critical slow mover")
    /\ \E s \in DOMAIN status_map :
          /\ status_map[s].status = "yellow"
          /\ s \in FrameSkus(GetFrame(results["contribution_margin"], "money_losers"))
          /\ s \in FrameSkus(GetFrame(results["new_product_scoring"], "underperformers"))

\* every sku that occurs in an input table of the run
ObservedSkus ==
    FrameSkus(Frame({"sku"}, sales_data)) \cup FrameSkus(Frame({"sku"}, inventory_data))
    \cup FrameSkus(Frame({"sku"}, product_info)) \cup FrameSkus(Frame({"sku"}, product_views))
    \cup FrameSkus(Frame({"sku"}, customer_overlap))

\* C5: the status map has exactly one entry for every sku observed anywhere in
\* the run (sales, inventory, product info, view events, purchase events),
\* also for skus that occur only as sku1/sku2 of a pairwise table, and every
\* entry starts green with no issues.
C5_EveryObservedSkuHasEntry ==
    pc \notin {"consolidate", "collect"} =>
        /\ DOMAIN status_map = ObservedSkus
        /\ (pc = "zombies" /\ row = 1) =>
              \A s \in DOMAIN status_map :
                  status_map[s].status = "green" /\ status_map[s].issues = <<>>

(***************************************************************************)
(* Consolidation specification: _consolidate_recommendations over result   *)
(* bundles whose analyses returned recommendation lists of up to MaxRecs   *)
(* records, each with a priority that analyzer emits.  The id of an action *)
(* is the record's position in its list.                                   *)
(***************************************************************************)
MaxRecs == 2

\* the priorities each analyzer's _generate_recommendations writes
EmittedPriorities ==
    [ a \in Range(AnalysisNames) |->
        CASE a = "sku_rationalization"  -> {"high"}
          [] a = "contribution_margin"  -> {}
          [] a = "slow_mover_detection" -> {"critical", "high"}
          [] a = "cannibalization"      -> {"high", "medium"}
          [] a = "new_product_scoring"  -> {"low", "high", "medium"}
          [] a = "bundle_opportunities" -> {"medium"} ]

\* an analyzer that writes one priority only contributes at most one record
ListLengths(a) == IF Cardinality(EmittedPriorities[a]) = 1 THEN 0..1 ELSE 0..MaxRecs

RecLists(a) ==
    UNION { { [ i \in 1..n |-> Rec("rec", pr[i], i, FALSE, {}) ] :
                pr \in [1..n -> EmittedPriorities[a]] } : n \in ListLengths(a) }

\* a record of ContributionMarginAnalyzer._generate_insights: no priority
Insight == [type |-> "warning", title |-> "SKUs Losing Money",
            action |-> [id |-> 1, says_sku |-> TRUE, skus |-> {}]]

InitConsolidate ==
    \E r1 \in RecLists("sku_rationalization") : \E r3 \in RecLists("slow_mover_detection") :
    \E r4 \in RecLists("cannibalization") : \E r5 \in RecLists("new_product_scoring") :
    \E r6 \in RecLists("bundle_opportunities") : \E insights \in {<<>>, <<Insight>>} :
      LET recsOf == [ a \in Range(AnalysisNames) |->
                        CASE a = "sku_rationalization"  -> r1
                          [] a = "slow_mover_detection" -> r3
                          [] a = "cannibalization"      -> r4
                          [] a = "new_product_scoring"  -> r5
                          [] a = "bundle_opportunities" -> r6
                          [] OTHER                      -> <<>> ]
      IN
        /\ sales_data = SkuRows(SKUS)
        /\ inventory_data = SkuRows(SKUS)
        /\ product_info = SkuRows(SKUS)
        /\ product_views = SkuRows(SKUS)
        /\ customer_overlap = SkuRows(SKUS)
        /\ results = BundleOf([ s \in SKUS |->
                                  [origin |-> Origin(TRUE, TRUE, "new", TRUE, TRUE),
                                   zombie |-> FALSE, loser |-> FALSE, slow |-> "none",
                                   under |-> FALSE] ],
                              recsOf, insights)
        /\ consolidated_recommendations = <<>>
        /\ all_skus = {}
        /\ status_map = <<>>
        /\ pc = "consolidate"
        /\ row = 1

NextConsolidate == ConsolidateRecommendations

SpecConsolidate == InitConsolidate /\ [][NextConsolidate]_vars

\* position of an analysis in the result bundle
BundlePosition(name) == CHOOSE i \in 1..Len(ResultKeys) : ResultKeys[i] = name

\* position of a consolidated record in the list of the analysis that emitted it
ListPosition(rec) ==
    CHOOSE i \in 1..Len(results[rec.source_analysis].recommendations) :
        results[rec.source_analysis].recommendations[i] = rec

EmittedBefore(r1, r2) ==
    \/ BundlePosition(r1.source_analysis) < BundlePosition(r2.source_analysis)
    \/ /\ r1.source_analysis = r2.source_analysis
       /\ ListPosition(r1) < ListPosition(r2)

\* C3: two recommendations of equal priority keep, in the output of
\* _consolidate_recommendations, their emission order (order of the analyses in
\* the result bundle, then order within the analysis's list).
C3_ConsolidationStable ==
    pc = "collect" =>
        \A i, j \in 1..Len(consolidated_recommendations) :
            (i < j /\ consolidated_recommendations[i].priority
                        = consolidated_recommendations[j].priority)
            => EmittedBefore(consolidated_recommendations[i],
                             consolidated_recommendations[j])

\* the sort has moved a record in front of an earlier-emitted one while records
\* of equal priority from one analysis and from two analyses are in the output
C3_Witness ==
    /\ pc = "collect"
    /\ \E i, j \in 1..Len(consolidated_recommendations) :
          /\ i < j
          /\ EmittedBefore(consolidated_recommendations[j], consolidated_recommendations[i])
    /\ \E i, j \in 1..Len(consolidated_recommendations) :
          /\ i < j
          /\ consolidated_recommendations[i].priority = consolidated_recommendations[j].priority
          /\ consolidated_recommendations[i].source_analysis
               = consolidated_recommendations[j].source_analysis
    /\ \E i, j \in 1..Len(consolidated_recommendations) :
          /\ i < j
          /\ consolidated_recommendations[i].priority = consolidated_recommendations[j].priority
          /\ consolidated_recommendations[i].source_analysis
               # consolidated_recommendations[j].source_analysis

ClaimedRank(priority) ==
    CASE priority = "critical" -> 0 [] priority = "high" -> 1
      [] priority = "medium" -> 2 [] priority = "low" -> 3

\* number of positions of seq that hold x
Occurrences(seq, x) == Cardinality({ i \in 1..Len(seq) : seq[i] = x })

RECURSIVE SumOver(_, _)
SumOver(F, S) == IF S = {} THEN 0
                 ELSE LET x == CHOOSE y \in S : TRUE IN F[x] + SumOver(F, S \ {x})

\* C4: the output holds every recommendation of every analysis exactly once,
\* tagged with the analysis that emitted it, and nothing else, in non-decreasing
\* priority rank critical=0, high=1, medium=2, low=3.
C4_ConsolidationComplete ==
    pc = "collect" =>
        LET out == consolidated_recommendations
            emitting == { a \in Range(AnalysisNames) : HasRecommendations(results[a]) }
        IN  /\ \A a \in emitting : \A i \in 1..Len(results[a].recommendations) :
                  /\ results[a].recommendations[i].source_analysis = a
                  /\ Occurrences(out, results[a].recommendations[i]) = 1
            /\ Len(out) = SumOver([ a \in emitting |-> Len(results[a].recommendations) ],
                                  emitting)
            /\ \A i \in 1..Len(out) : out[i].source_analysis \in emitting
            /\ \A i, j \in 1..Len(out) :
                  i < j => ClaimedRank(out[i].priority) <= ClaimedRank(out[j].priority)

\* an output with all four priorities, drawn from at least three analyses
C4_Witness ==
    /\ pc = "collect"
    /\ { consolidated_recommendations[i].priority :
           i \in 1..Len(consolidated_recommendations) }
         = {"critical", "high", "medium", "low"}
    /\ Cardinality({ consolidated_recommendations[i].source_analysis :
                       i \in 1..Len(consolidated_recommendations) }) >= 3

(***************************************************************************)
(* SKURationalizationAnalyzer (analyzers/sku_rationalization.py)           *)
(*                                                                         *)
(* A column that may hold NaN has values <<>> (NaN) or <<v>>.  A ratio is  *)
(* a record [num, den] with den > 0.  Percentile ranks and composite       *)
(* scores are kept as exact ratios over one common denominator per table.  *)
(***************************************************************************)
NaN == <<>>
Num(v) == <<v>>
IsNaN(x) == x = <<>>
ValOf(x) == x[1]

Ratio(n, d) == [num |-> n, den |-> d]

\* a <= b for ratios with positive denominators
RatioLeq(a, b) == a.num * b.den <= b.num * a.den
RatioLess(a, b) == a.num * b.den < b.num * a.den

\* config.Config.ZOMBIE_THRESHOLD_PERCENTILE
ZOMBIE_THRESHOLD_PERCENTILE == 20

\* zombies.head(10)
TopZombies == 10

RECURSIVE SumField(_, _, _)
\* groupby('sku').agg(sum) for one sku and one column
SumField(rws, sku, field) ==
    IF rws = <<>> THEN 0
    ELSE (IF Head(rws).sku = sku THEN Head(rws)[field] ELSE 0)
         + SumField(Tail(rws), sku, field)

\* a row of the sales table
SalesRow(s, rev, u, f, sh) ==
    [sku |-> s, revenue |-> rev, units |-> u, fees |-> f, shipping_cost |-> sh]

RowSkus(rws) == { rws[i].sku : i \in 1..Len(rws) }

RowOf(rws, sku) == rws[CHOOSE i \in 1..Len(rws) : rws[i].sku = sku]

\* _merge_data: sales summed by sku, outer merge with inventory, left merge
\* with product info; revenue, units, quantity_on_hand and cost_per_unit are
\* filled with 0, fees and shipping_cost are not
MergeData(sales, inventory, info) ==
    LET keys == SeqOfSet(RowSkus(sales) \cup RowSkus(inventory))
    IN  [ i \in 1..Len(keys) |->
          LET k == keys[i]
              sold == k \in RowSkus(sales)
              stocked == k \in RowSkus(inventory)
          IN  [sku |-> k,
               revenue |-> IF sold THEN SumField(sales, k, "revenue") ELSE 0,
               units |-> IF sold THEN SumField(sales, k, "units") ELSE 0,
               fees |-> IF sold THEN Num(SumField(sales, k, "fees")) ELSE NaN,
               shipping_cost |-> IF sold THEN Num(SumField(sales, k, "shipping_cost")) ELSE NaN,
               quantity_on_hand |-> IF stocked THEN RowOf(inventory, k).quantity_on_hand ELSE 0,
               cost_per_unit |-> IF stocked THEN RowOf(inventory, k).cost_per_unit ELSE 0,
               has_product_info |-> k \in RowSkus(info)] ]

\* doubled average rank of v among the non-NaN values, largest value first:
\* Series.rank(ascending=False), method 'average'
RankDescendingTwice(values, v) ==
    2 * Cardinality({ i \in 1..Len(values) : ~IsNaN(values[i]) /\ ValOf(values[i]) > ValOf(v) })
    + Cardinality({ i \in 1..Len(values) : values[i] = v }) + 1

\* number of non-NaN values: the denominator of rank(pct=True)
CountValid(values) == Cardinality({ i \in 1..Len(values) : ~IsNaN(values[i]) })

\* Series.rank(pct=True, ascending=False) of the i-th value; NaN stays NaN
RankPct(values, i) ==
    IF IsNaN(values[i]) THEN NaN
    ELSE Num(Ratio(RankDescendingTwice(values, values[i]), 2 * CountValid(values)))

Profit(r) == IF IsNaN(r.fees) \/ IsNaN(r.shipping_cost) THEN NaN
             ELSE Num(r.revenue - ValOf(r.fees) - ValOf(r.shipping_cost))

\* 0.4 * revenue pct + 0.4 * profit pct + 0.2 * velocity pct, over the
\* denominator 20 * n * m (n rows, m rows with a profit)
CompositeScore(revs, profits, vels, i) ==
    IF IsNaN(RankPct(profits, i)) THEN NaN
    ELSE LET n == CountValid(revs)
             m == CountValid(profits)
         IN  Num(Ratio(  4 * ValOf(RankPct(revs, i)).num * m
                       + 4 * ValOf(RankPct(profits, i)).num * n
                       + 2 * ValOf(RankPct(vels, i)).num * m,
                       20 * n * m))

\* _calculate_metrics
CalculateMetrics(merged) ==
    LET revs    == [ i \in 1..Len(merged) |-> Num(merged[i].revenue) ]
        profits == [ i \in 1..Len(merged) |-> Profit(merged[i]) ]
        vels    == [ i \in 1..Len(merged) |-> Num(merged[i].units) ]
    IN  [ i \in 1..Len(merged) |->
          LET r == merged[i] IN
          [sku |-> r.sku, revenue |-> r.revenue, units |-> r.units,
           fees |-> r.fees, shipping_cost |-> r.shipping_cost,
           quantity_on_hand |-> r.quantity_on_hand, cost_per_unit |-> r.cost_per_unit,
           has_product_info |-> r.has_product_info,
           profit |-> profits[i],
           profit_margin |-> IF r.revenue > 0
                             THEN (IF IsNaN(profits[i]) THEN NaN
                                   ELSE Num(Ratio(ValOf(profits[i]), r.revenue)))
                             ELSE Num(Ratio(0, 1)),
           working_capital |-> r.quantity_on_hand * r.cost_per_unit,
           revenue_per_unit |-> IF r.units > 0 THEN Ratio(r.revenue, r.units) ELSE Ratio(0, 1),
           velocity_score |-> r.units,
           composite_score |-> CompositeScore(revs, profits, vels, i)] ]

MetricsColumns == {"sku", "revenue", "units", "fees", "shipping_cost", "quantity_on_hand",
                   "cost_per_unit", "product_name", "category", "launch_date", "profit",
                   "profit_margin", "working_capital", "revenue_per_unit",
                   "velocity_score", "composite_score"}

RECURSIVE InsertByScore(_, _)
InsertByScore(x, s) ==
    IF s = <<>> THEN <<x>>
    ELSE IF RatioLeq(ValOf(Head(s).composite_score), ValOf(x.composite_score))
         THEN <<Head(s)>> \o InsertByScore(x, Tail(s))
         ELSE <<x>> \o s

RECURSIVE SortByScoreFrom(_, _)
SortByScoreFrom(sorted, rest) ==
    IF rest = <<>> THEN sorted
    ELSE SortByScoreFrom(InsertByScore(Head(rest), sorted), Tail(rest))

\* sort_values('composite_score') of rows that all have a score
SortByScore(rws) == SortByScoreFrom(<<>>, rws)

PercentileFromTop(sorted, q) ==
    LET m == Len(sorted)
        pos == (100 - q) * (m - 1)
        i == pos \div 100
        lo == sorted[i + 1].num
        hi == IF i + 2 <= m THEN sorted[i + 2].num ELSE lo
    IN  Ratio(100 * lo + (hi - lo) * (pos - 100 * i), 100 * sorted[1].den)

\* np.percentile(values, q), linear interpolation between the order
\* statistics, for values given in increasing order over one denominator
Percentile(sorted, q) ==
    LET m == Len(sorted)
        pos == q * (m - 1)
        i == pos \div 100
        lo == sorted[i + 1].num
        hi == IF i + 2 <= m THEN sorted[i + 2].num ELSE lo
    IN  Ratio(100 * lo + (hi - lo) * (pos - 100 * i), 100 * sorted[1].den)

\* _get_zombie_reason
ZombieReason(r) ==
    LET revenue_part == IF r.revenue = 0 THEN <<"No revenue">>
                        ELSE IF r.revenue < 100 THEN <<"Very low revenue">> ELSE <<>>
        profit_part  == IF ~IsNaN(r.profit) /\ ValOf(r.profit) < 0 THEN <<"Negative profit">>
                        ELSE IF ~IsNaN(r.profit_margin)
                                /\ RatioLess(ValOf(r.profit_margin), Ratio(1, 10))
                             THEN <<"Low profit margin">> ELSE <<>>
        units_part   == IF r.units = 0 THEN <<"No units sold">>
                        ELSE IF r.units < 5 THEN <<"Very slow moving">> ELSE <<>>
        dead_part    == IF r.quantity_on_hand > 0 /\ r.units = 0
                        THEN <<"Dead inventory">> ELSE <<>>
        reasons      == revenue_part \o profit_part \o units_part \o dead_part
    IN  IF reasons # <<>> THEN reasons ELSE <<"Bottom performer">>

\* _identify_zombies for the table of metrics rows and threshold percentile q
IdentifyZombies(metrics, q) ==
    LET active == SelectSeq(metrics, LAMBDA r : r.revenue > 0 \/ r.quantity_on_hand > 0)
    IN  IF Len(active) = 0 THEN EmptyFrame
        ELSE IF \E i \in 1..Len(active) : IsNaN(active[i].composite_score)
             \* the percentile of an array that holds NaN is NaN, and no
             \* comparison with NaN is true
             THEN Frame(MetricsColumns \cup {"status", "reason"}, <<>>)
             ELSE LET ordered == SortByScore(active)
                      scores == [ i \in 1..Len(active) |->
                                    ValOf(ordered[i].composite_score) ]
                      threshold == Percentile(scores, q)
                      below == SelectSeq(active,
                                   LAMBDA r : RatioLeq(ValOf(r.composite_score), threshold))
                      sorted == SortByScore(below)
                  IN  Frame(MetricsColumns \cup {"status", "reason"},
                            [ i \in 1..Len(sorted) |->
                                [ f \in (DOMAIN sorted[i]) \cup {"status", "reason"} |->
                                    IF f = "status" THEN "zombie"
                                    ELSE IF f = "reason" THEN ZombieReason(sorted[i])
                                    ELSE sorted[i][f] ] ])

RECURSIVE SumColumn(_, _)
SumColumn(rws, field) ==
    IF rws = <<>> THEN 0 ELSE Head(rws)[field] + SumColumn(Tail(rws), field)

RECURSIVE SumProfit(_)
SumProfit(rws) == IF rws = <<>> THEN 0 ELSE ValOf(Head(rws).profit) + SumProfit(Tail(rws))

FinancialImpactInUnits(zombies) ==
    IF Len(zombies.rows) = 0
    THEN [working_capital_freed |-> 0, annual_revenue_lost |-> 0,
          annual_profit_lost |-> 0, net_benefit |-> 0]
    ELSE [working_capital_freed |-> SumColumn(zombies.rows, "quantity_on_hand"),
          annual_revenue_lost |-> SumColumn(zombies.rows, "revenue") * 12,
          annual_profit_lost |-> SumProfit(zombies.rows) * 12,
          net_benefit |-> SumColumn(zombies.rows, "quantity_on_hand")
                          - SumProfit(zombies.rows) * 12]

\* _calculate_financial_impact
FinancialImpact(zombies) ==
    IF Len(zombies.rows) = 0
    THEN [working_capital_freed |-> 0, annual_revenue_lost |-> 0,
          annual_profit_lost |-> 0, net_benefit |-> 0]
    ELSE [working_capital_freed |-> SumColumn(zombies.rows, "working_capital"),
          annual_revenue_lost |-> SumColumn(zombies.rows, "revenue") * 12,
          annual_profit_lost |-> SumProfit(zombies.rows) * 12,
          net_benefit |-> SumColumn(zombies.rows, "working_capital")
                          - SumProfit(zombies.rows) * 12]

\* _generate_recommendations: "Discontinue n zombie SKUs", then
\* "Discontinue SKU: <sku>" for the first ten zombies; a sku text is taken to
\* occur in no action but the one written for it
ZombieRecommendations(zombies) ==
    IF Len(zombies.rows) = 0 THEN <<>>
    ELSE LET top == SubSeq(zombies.rows, 1,
                           IF Len(zombies.rows) < TopZombies THEN Len(zombies.rows)
                           ELSE TopZombies)
         IN  <<Rec("discontinue", "high", 0, TRUE, {})>>
             \o [ i \in 1..Len(top) |-> Rec("discontinue_sku", "high", i, TRUE, {top[i].sku}) ]

\* SKURationalizationAnalyzer.analyze
SkuRationalization(sales, inventory, info, q) ==
    LET metrics == CalculateMetrics(MergeData(sales, inventory, info))
        zombies == IdentifyZombies(metrics, q)
        impact  == FinancialImpact(zombies)
    IN  [kind |-> "dict",
         frames |-> [zombie_skus |-> zombies, metrics |-> Frame(MetricsColumns, metrics)],
         financial_impact |-> impact,
         recommendations |-> ZombieRecommendations(zombies),
         summary |-> [total_zombies |-> Len(zombies.rows),
                      capital_freed |-> impact.working_capital_freed,
                      bottom_percentile |-> q]]

(***************************************************************************)
(* Pairwise statistics: CannibalizationAnalyzer (analyzers/                *)
(* cannibalization.py) and BundleFinderAnalyzer (analyzers/                *)
(* bundle_finder.py)                                                       *)
(***************************************************************************)
\* config.Config.CANNIBALIZATION_OVERLAP_THRESHOLD = 0.85
CANNIBALIZATION_OVERLAP_THRESHOLD == Ratio(85, 100)

\* config.Config.BUNDLE_CORRELATION_THRESHOLD = 0.70
BUNDLE_CORRELATION_THRESHOLD == Ratio(70, 100)

\* 'high' if row['overlap_pct'] >= 0.90 else 'medium'
HighOverlap == Ratio(90, 100)

\* head(10) of the retained pairs
TopPairs == 10

\* the record r with field f set to v
Extend(r, f, v) == [ x \in (DOMAIN r) \cup {f} |-> IF x = f THEN v ELSE r[x] ]

Head10(rws) == SubSeq(rws, 1, IF Len(rws) < TopPairs THEN Len(rws) ELSE TopPairs)

RECURSIVE UniqueFrom(_, _)
UniqueFrom(seen, rest) ==
    IF rest = <<>> THEN seen
    ELSE UniqueFrom(IF Head(rest) \in Range(seen) THEN seen ELSE Append(seen, Head(rest)),
                    Tail(rest))

\* Series.unique(): the distinct skus in order of first appearance
UniqueSkus(rws) == UniqueFrom(<<>>, [ i \in 1..Len(rws) |-> rws[i].sku ])

UnsummedSales(sales) ==
    [ i \in 1..Len(sales) |->
        [sku |-> sales[i].sku, revenue |-> sales[i].revenue, units |-> sales[i].units] ]

\* sales_data.groupby('sku').agg(sum).reset_index(): one row per sku, by sku
SalesSummary(sales) ==
    LET keys == SeqOfSet(RowSkus(sales))
    IN  [ i \in 1..Len(keys) |->
            [sku |-> keys[i], revenue |-> SumField(sales, keys[i], "revenue"),
             units |-> SumField(sales, keys[i], "units")] ]

\* left.merge(summary renamed to key/revenue_name/units_name, on=key,
\* how='left'): one row per matching summary row, NaN where none matches
MergeSales(rws, summary, key, revenue_name, units_name) ==
    LET Joined == [ i \in 1..Len(rws) |->
                      LET matches == SelectSeq(summary, LAMBDA m : m.sku = rws[i][key])
                      IN  IF matches = <<>>
                          THEN <<Extend(Extend(rws[i], revenue_name, NaN), units_name, NaN)>>
                          ELSE [ k \in 1..Len(matches) |->
                                   Extend(Extend(rws[i], revenue_name, Num(matches[k].revenue)),
                                          units_name, Num(matches[k].units)) ] ]
    IN  FlatMap(Joined, [ i \in 1..Len(rws) |-> i ])

\* a >= b on values that may be NaN: false when either is NaN
GeqNullable(a, b) == ~IsNaN(a) /\ ~IsNaN(b) /\ ValOf(a) >= ValOf(b)

(***************************************************************************)
(* Customer overlap                                                        *)
(***************************************************************************)
\* the customers whose set of skus holds the sku
CustomersOf(data, sku) ==
    { data[i].customer_id : i \in { i \in 1..Len(data) : data[i].sku = sku } }

OverlapColumns == {"sku1", "sku2", "customers_sku1", "customers_sku2",
                   "overlap_count", "overlap_pct"}

\* _calculate_overlap_matrix
OverlapMatrix(data) ==
    IF data = <<>> THEN EmptyFrame
    ELSE LET pairs == Combinations(UniqueSkus(data))
             emitted == SelectSeq(pairs, LAMBDA pr :
                            /\ (  Cardinality(CustomersOf(data, pr[1])) > 0
                               \/ Cardinality(CustomersOf(data, pr[2])) > 0)
                            /\ Cardinality(CustomersOf(data, pr[1])
                                           \cup CustomersOf(data, pr[2])) > 0)
             rws == [ i \in 1..Len(emitted) |->
                        LET c1 == CustomersOf(data, emitted[i][1])
                            c2 == CustomersOf(data, emitted[i][2])
                        IN  [sku1 |-> emitted[i][1], sku2 |-> emitted[i][2],
                             customers_sku1 |-> Cardinality(c1),
                             customers_sku2 |-> Cardinality(c2),
                             overlap_count |-> Cardinality(c1 \cap c2),
                             overlap_pct |-> Ratio(Cardinality(c1 \cap c2),
                                                   Cardinality(c1 \cup c2))] ]
         IN  IF rws = <<>> THEN EmptyFrame ELSE Frame(OverlapColumns, rws)

RECURSIVE InsertByOverlap(_, _)
InsertByOverlap(x, s) ==
    IF s = <<>> THEN <<x>>
    ELSE IF RatioLeq(x.overlap_pct, Head(s).overlap_pct)
         THEN <<Head(s)>> \o InsertByOverlap(x, Tail(s))
         ELSE <<x>> \o s

RECURSIVE SortByOverlapFrom(_, _)
SortByOverlapFrom(sorted, rest) ==
    IF rest = <<>> THEN sorted
    ELSE SortByOverlapFrom(InsertByOverlap(Head(rest), sorted), Tail(rest))

UnsortedByOverlap(rws) == rws

\* sort_values('overlap_pct', ascending=False); rows of equal overlap keep
\* their order
SortByOverlap(rws) == SortByOverlapFrom(<<>>, rws)

CannibalColumns == OverlapColumns \cup {"revenue1", "units1", "revenue2", "units2",
                                        "stronger_sku", "weaker_sku"}

\* _identify_cannibalization
IdentifyCannibalization(overlap_matrix, sales) ==
    IF Len(overlap_matrix.rows) = 0 THEN EmptyFrame
    ELSE LET high == SelectSeq(overlap_matrix.rows, LAMBDA r :
                         RatioLeq(CANNIBALIZATION_OVERLAP_THRESHOLD, r.overlap_pct))
             summary == SalesSummary(sales)
             merged == MergeSales(MergeSales(high, summary, "sku1", "revenue1", "units1"),
                                  summary, "sku2", "revenue2", "units2")
             ranked == [ i \in 1..Len(merged) |->
                           LET r == merged[i]
                               first == GeqNullable(r.revenue1, r.revenue2)
                           IN  Extend(Extend(r, "stronger_sku", IF first THEN r.sku1 ELSE r.sku2),
                                      "weaker_sku", IF first THEN r.sku2 ELSE r.sku1) ]
         IN  Frame(CannibalColumns, SortByOverlap(ranked))

\* min(row['revenue1'], row['revenue2']): the first argument unless the
\* second compares smaller
RevenueAtRisk(r) ==
    IF ~IsNaN(r.revenue1) /\ ~IsNaN(r.revenue2) /\ ValOf(r.revenue2) < ValOf(r.revenue1)
    THEN r.revenue2 ELSE r.revenue1

\* the pairs table after _calculate_impact has added revenue_at_risk to it
WithRevenueAtRisk(pairs) ==
    IF Len(pairs.rows) = 0 THEN pairs
    ELSE Frame(pairs.columns \cup {"revenue_at_risk"},
               [ i \in 1..Len(pairs.rows) |->
                   Extend(pairs.rows[i], "revenue_at_risk", RevenueAtRisk(pairs.rows[i])) ])

RECURSIVE SumNullable(_, _)
\* Series.sum(): NaN is skipped
SumNullable(rws, field) ==
    IF rws = <<>> THEN 0
    ELSE (IF IsNaN(Head(rws)[field]) THEN 0 ELSE ValOf(Head(rws)[field]))
         + SumNullable(Tail(rws), field)

\* _generate_recommendations of the cannibalization analyzer
CannibalizationRecommendations(pairs) ==
    IF Len(pairs.rows) = 0 THEN <<>>
    ELSE LET top == Head10(pairs.rows)
         IN  <<Rec("cannibalization_warning", "high", 0, FALSE, {})>>
             \o [ i \in 1..Len(top) |->
                    Rec("cannibalization_pair",
                        IF RatioLeq(HighOverlap, top[i].overlap_pct) THEN "high" ELSE "medium",
                        i, TRUE, {top[i].sku1, top[i].sku2}) ]

\* the summary reads cannibal_pairs['overlap_pct'], a column that the empty
\* pd.DataFrame() returned for an empty overlap matrix does not have
CannibalizationRaises(data) == Len(OverlapMatrix(data).rows) = 0

\* CannibalizationAnalyzer.analyze
Cannibalization(data, sales) ==
    LET overlap_matrix == OverlapMatrix(data)
        pairs == WithRevenueAtRisk(IdentifyCannibalization(overlap_matrix, sales))
    IN  [kind |-> "dict",
         frames |-> [overlap_matrix |-> overlap_matrix, cannibalization_pairs |-> pairs],
         impact_analysis |-> [total_revenue_at_risk |->
                                IF Len(pairs.rows) = 0 THEN 0
                                ELSE SumNullable(pairs.rows, "revenue_at_risk")],
         recommendations |-> CannibalizationRecommendations(pairs),
         summary |-> [total_pairs_analyzed |-> Len(overlap_matrix.rows),
                      cannibalization_pairs_count |-> Len(pairs.rows)]]

(***************************************************************************)
(* View correlation                                                        *)
(***************************************************************************)
\* the session_id column: the table's own, or date + '_' + unique_visitors,
\* or the date alone
SessionIdOf(r) ==
    IF "session_id" \in DOMAIN r THEN r.session_id
    ELSE IF "unique_visitors" \in DOMAIN r THEN <<r.date, r.unique_visitors>>
    ELSE <<r.date>>

\* product_views_data after _calculate_view_correlations has written the
\* session_id column into it
WithSessionId(views) ==
    [ i \in 1..Len(views) |-> Extend(views[i], "session_id", SessionIdOf(views[i])) ]

ViewEventsOf(views, sku) ==
    { <<views[i].session_id, i>> : i \in { i \in 1..Len(views) : views[i].sku = sku } }

\* the sessions in which the sku's column of the binary view matrix is 1
SessionsOf(views, sku) ==
    { views[i].session_id : i \in { i \in 1..Len(views) : views[i].sku = sku } }

CoViewsEither(views, sku1, sku2) ==
    Cardinality(SessionsOf(views, sku1) \cup SessionsOf(views, sku2))

\* ((view_matrix[sku1] * view_matrix[sku2]) > 0).sum()
CoViews(views, sku1, sku2) ==
    Cardinality(SessionsOf(views, sku1) \cap SessionsOf(views, sku2))

CorrelationColumns == {"sku1", "sku2", "views_sku1", "views_sku2", "co_views",
                       "correlation", "correlation_1_to_2", "correlation_2_to_1"}

\* _calculate_view_correlations, for the table that has its session_id
ViewCorrelations(views) ==
    LET pairs == Combinations(SeqOfSet(RowSkus(views)))
        emitted == SelectSeq(pairs, LAMBDA pr :
                       /\ Cardinality(SessionsOf(views, pr[1])) > 0
                       /\ Cardinality(SessionsOf(views, pr[2])) > 0)
        rws == [ i \in 1..Len(emitted) |->
                   LET v1 == Cardinality(SessionsOf(views, emitted[i][1]))
                       v2 == Cardinality(SessionsOf(views, emitted[i][2]))
                       co == CoViews(views, emitted[i][1], emitted[i][2])
                   IN  [sku1 |-> emitted[i][1], sku2 |-> emitted[i][2],
                        views_sku1 |-> v1, views_sku2 |-> v2, co_views |-> co,
                        correlation_1_to_2 |-> Ratio(co, v1),
                        correlation_2_to_1 |-> Ratio(co, v2),
                        correlation |-> Ratio(co * (v1 + v2), 2 * v1 * v2)] ]
    IN  IF rws = <<>> THEN EmptyFrame ELSE Frame(CorrelationColumns, rws)

\* x sorts before y: higher correlation first, then higher combined revenue,
\* NaN last
BundleBefore(x, y) ==
    \/ RatioLess(y.correlation, x.correlation)
    \/ /\ x.correlation.num * y.correlation.den = y.correlation.num * x.correlation.den
       /\ ~IsNaN(x.combined_revenue)
       /\ (IsNaN(y.combined_revenue) \/ ValOf(x.combined_revenue) > ValOf(y.combined_revenue))

RECURSIVE InsertBundle(_, _)
InsertBundle(x, s) ==
    IF s = <<>> THEN <<x>>
    ELSE IF BundleBefore(x, Head(s)) THEN <<x>> \o s
         ELSE <<Head(s)>> \o InsertBundle(x, Tail(s))

RECURSIVE SortBundlesFrom(_, _)
SortBundlesFrom(sorted, rest) ==
    IF rest = <<>> THEN sorted
    ELSE SortBundlesFrom(InsertBundle(Head(rest), sorted), Tail(rest))

\* sort_values(['correlation', 'combined_revenue'], ascending=[False, False])
SortBundles(rws) == SortBundlesFrom(<<>>, rws)

BundleColumns == CorrelationColumns \cup {"revenue1", "units1", "revenue2", "units2",
                                          "revenue_mean_x", "revenue_mean_y",
                                          "combined_revenue"}

AddNullable(a, b) == IF IsNaN(a) \/ IsNaN(b) THEN NaN ELSE Num(ValOf(a) + ValOf(b))

\* _identify_bundle_opportunities
IdentifyBundleOpportunities(correlations, sales) ==
    IF Len(correlations.rows) = 0 THEN EmptyFrame
    ELSE LET high == SelectSeq(correlations.rows, LAMBDA r :
                         RatioLeq(BUNDLE_CORRELATION_THRESHOLD, r.correlation))
             summary == SalesSummary(sales)
             merged == MergeSales(MergeSales(high, summary, "sku1", "revenue1", "units1"),
                                  summary, "sku2", "revenue2", "units2")
             combined == [ i \in 1..Len(merged) |->
                             Extend(merged[i], "combined_revenue",
                                    AddNullable(merged[i].revenue1, merged[i].revenue2)) ]
         IN  Frame(BundleColumns, SortBundles(combined))

\* the bundles table after _calculate_bundle_potential has added bundle_price
\* (combined revenue * 0.9) and potential_revenue (bundle_price * co_views *
\* 0.15) to it
WithBundlePotential(bundles) ==
    IF Len(bundles.rows) = 0 THEN bundles
    ELSE Frame(bundles.columns \cup {"bundle_price", "potential_revenue"},
               [ i \in 1..Len(bundles.rows) |->
                   LET r == bundles.rows[i] IN
                   Extend(Extend(r, "bundle_price",
                                 IF IsNaN(r.combined_revenue) THEN NaN
                                 ELSE Num(Ratio(9 * ValOf(r.combined_revenue), 10))),
                          "potential_revenue",
                          IF IsNaN(r.combined_revenue) THEN NaN
                          ELSE Num(Ratio(9 * ValOf(r.combined_revenue) * 15 * r.co_views,
                                         1000))) ])

\* _generate_recommendations of the bundle finder; the product names are
\* taken not to hold the word sku
BundleRecommendations(bundles) ==
    IF Len(bundles.rows) = 0 THEN <<>>
    ELSE LET top == Head10(bundles.rows)
         IN  <<Rec("bundle_opportunity", "medium", 0, FALSE, {})>>
             \o [ i \in 1..Len(top) |-> Rec("create_bundle", "medium", i, FALSE, {}) ]

\* the summary reads bundles['correlation'], a column that the empty
\* pd.DataFrame() returned for an empty correlation table does not have
BundleFinderRaises(views) ==
    views # <<>> /\ Len(ViewCorrelations(WithSessionId(views)).rows) = 0

\* BundleFinderAnalyzer.analyze
BundleFinder(views, sales) ==
    IF views = <<>>
    THEN [kind |-> "dict",
          frames |-> [view_correlations |-> EmptyFrame, bundle_opportunities |-> EmptyFrame],
          recommendations |-> <<>>,
          summary |-> [opportunities_count |-> 0]]
    ELSE LET correlations == ViewCorrelations(WithSessionId(views))
             bundles == WithBundlePotential(IdentifyBundleOpportunities(correlations, sales))
         IN  [kind |-> "dict",
              frames |-> [view_correlations |-> correlations, bundle_opportunities |-> bundles],
              recommendations |-> BundleRecommendations(bundles),
              summary |-> [opportunities_count |-> Len(bundles.rows)]]

(***************************************************************************)
(* Pairs specification: the run over purchase and view event tables, from  *)
(* the SKU rationalization through the cannibalization and the bundle      *)
(* analyses (run_full_analysis lines 103-121) up to the result bundle.     *)
(***************************************************************************)
NumPairSkus == 3

MaxEvents == 3

PairSkus == 1..NumPairSkus

Customers == {"c1", "c2"}

PurchaseRow(c, s) == [customer_id |-> c, sku |-> s]

PurchaseRows == { PurchaseRow(c, s) : c \in Customers, s \in PairSkus }

\* view rows of the three shapes of table: with unique_visitors, with the
\* date only, with a session_id of their own
ViewRows(shape) ==
    CASE shape = "visitors" ->
           { [sku |-> s, date |-> 1, unique_visitors |-> u] : s \in PairSkus, u \in {8, 9} }
      [] shape = "dated" ->
           { [sku |-> s, date |-> d] : s \in PairSkus, d \in {1, 2} }
      [] shape = "sessions" ->
           { [sku |-> s, date |-> 1, session_id |-> k] : s \in PairSkus, k \in {"s1", "s2"} }

ViewShapes == {"visitors", "dated", "sessions"}

\* the tables of up to MaxEvents rows, repeated rows included
TablesOf(rws) == UNION { [1..n -> rws] : n \in 0..MaxEvents }

\* two customers, three skus, one purchase recorded twice
RecordedPurchases ==
    <<PurchaseRow("c1", 2), PurchaseRow("c1", 1), PurchaseRow("c2", 3), PurchaseRow("c1", 2)>>

Buyers == <<"b1", "b2", "b3", "b4", "b5", "b6", "b7">>

\* seven customers who all buy skus 1 and 2, six of them sku 3 as well, the
\* first one twice
LoyalPurchases ==
    [ i \in 1..6 |-> PurchaseRow(Buyers[i], 3) ]
    \o [ i \in 1..7 |-> PurchaseRow(Buyers[i], 1) ]
    \o [ i \in 1..7 |-> PurchaseRow(Buyers[i], 2) ]
    \o <<PurchaseRow(Buyers[1], 3)>>

PairSales ==
    << <<SalesRow(1, 60, 1, 0, 0), SalesRow(1, 40, 1, 0, 0), SalesRow(2, 150, 2, 0, 0)>>,
       <<SalesRow(1, 200, 2, 0, 0), SalesRow(2, 150, 2, 0, 0), SalesRow(3, 150, 1, 0, 0)>> >>

\* either any purchase table and no views, or the purchases of the loyal
\* customers and no views, or the recorded purchases and any view table
InitPairs ==
    \E k \in DOMAIN PairSales :
        /\ sales_data = PairSales[k]
        /\ \/ /\ customer_overlap \in TablesOf(PurchaseRows)
              /\ product_views = <<>>
           \/ /\ customer_overlap = LoyalPurchases
              /\ product_views = <<>>
           \/ /\ customer_overlap = RecordedPurchases
              /\ \E shape \in ViewShapes :
                   /\ product_views \in TablesOf(ViewRows(shape))
                   /\ product_views # <<>>
        /\ inventory_data = <<>>
        /\ product_info = SkuRows(PairSkus)
        /\ results = [platform |-> Scalar, analysis_date |-> Scalar,
                      analysis_period_days |-> Scalar]
        /\ consolidated_recommendations = <<>>
        /\ all_skus = {}
        /\ status_map = <<>>
        /\ pc = "sku_rationalization"
        /\ row = 1

\* results['sku_rationalization'] = sku_analyzer.analyze(...)
AnalyzeSkuRationalization ==
    /\ pc = "sku_rationalization"
    /\ results' = [ k \in (DOMAIN results) \cup {"sku_rationalization"} |->
                      IF k = "sku_rationalization"
                      THEN SkuRationalization(sales_data, inventory_data, product_info,
                                              ZOMBIE_THRESHOLD_PERCENTILE)
                      ELSE results[k] ]
    /\ pc' = "cannibalization"
    /\ UNCHANGED <<sales_data, inventory_data, product_info, product_views,
                   customer_overlap, consolidated_recommendations, all_skus,
                   status_map, row>>

\* results['cannibalization'] = cannibalization_analyzer.analyze(...); an
\* exception leaves the run without a result bundle
AnalyzeCannibalization ==
    /\ pc = "cannibalization"
    /\ IF CannibalizationRaises(customer_overlap)
       THEN pc' = "raised" /\ UNCHANGED results
       ELSE /\ results' = Extend(results, "cannibalization",
                                 Cannibalization(customer_overlap, sales_data))
            /\ pc' = "bundle_opportunities"
    /\ UNCHANGED <<sales_data, inventory_data, product_info, product_views,
                   customer_overlap, consolidated_recommendations, all_skus,
                   status_map, row>>

\* results['bundle_opportunities'] = bundle_finder.analyze(...)
AnalyzeBundleOpportunities ==
    /\ pc = "bundle_opportunities"
    /\ product_views' = WithSessionId(product_views)
    /\ IF BundleFinderRaises(product_views)
       THEN pc' = "raised" /\ UNCHANGED results
       ELSE /\ results' = Extend(results, "bundle_opportunities",
                                 BundleFinder(product_views, sales_data))
            /\ pc' = "consolidate"
    /\ UNCHANGED <<sales_data, inventory_data, product_info, customer_overlap,
                   consolidated_recommendations, all_skus, status_map, row>>

NextPairs ==
    \/ AnalyzeSkuRationalization
    \/ AnalyzeCannibalization
    \/ AnalyzeBundleOpportunities

SpecPairs == InitPairs /\ [][NextPairs]_vars

(***************************************************************************)
(* Zombie specification: the run over sales and inventory tables, through  *)
(* the SKU rationalization analysis (run_full_analysis lines 103-105),     *)
(* the two pairwise analyses and on to the consolidation and the status    *)
(* map.  The purchases are the recorded ones and there are no views, so    *)
(* the pairwise analyses return.                                           *)
(***************************************************************************)
NumRankedSkus == 3

RankedSkus == 1..NumRankedSkus

\* the sales rows of one sku: none, one without revenue, one profitable, one
\* sold at a loss, two profitable ones
SalesOptions(s) ==
    << <<>>,
       <<SalesRow(s, 0, 0, 0, 0)>>,
       <<SalesRow(s, 100, 1, 0, 0)>>,
       <<SalesRow(s, 100, 1, 100, 50)>>,
       <<SalesRow(s, 100, 1, 0, 0), SalesRow(s, 100, 1, 0, 0)>> >>

\* the inventory row of one sku: none, or 50 on hand at a cost of 2
InventoryOptions(s) ==
    << <<>>, <<[sku |-> s, quantity_on_hand |-> 50, cost_per_unit |-> 2]>> >>

InitZombie ==
    \E sold \in [RankedSkus -> DOMAIN SalesOptions(1)] :
    \E stock \in [RankedSkus -> DOMAIN InventoryOptions(1)] :
        /\ sales_data = FlatMap([ s \in RankedSkus |-> SalesOptions(s)[sold[s]] ],
                                SeqOfSet(RankedSkus))
        /\ inventory_data = FlatMap([ s \in RankedSkus |-> InventoryOptions(s)[stock[s]] ],
                                    SeqOfSet(RankedSkus))
        /\ product_info = SkuRows(RankedSkus)
        /\ product_views = <<>>
        /\ customer_overlap = RecordedPurchases
        /\ results = [platform |-> Scalar, analysis_date |-> Scalar,
                      analysis_period_days |-> Scalar]
        /\ consolidated_recommendations = <<>>
        /\ all_skus = {}
        /\ status_map = <<>>
        /\ pc = "sku_rationalization"
        /\ row = 1

NextZombie ==
    \/ AnalyzeSkuRationalization
    \/ AnalyzeCannibalization
    \/ AnalyzeBundleOpportunities
    \/ ConsolidateRecommendations
    \/ InitStatusMap
    \/ ApplyRow
    \/ EndRule
    \/ AddRecommendations

SpecZombie == InitZombie /\ [][NextZombie]_vars

(***************************************************************************)
(* Properties of the composite score and the zombie set                    *)
(***************************************************************************)
Analyzed == "sku_rationalization" \in DOMAIN results

\* the analysis has just returned
JustAnalyzed == Analyzed /\ pc = "cannibalization"

MetricsRows == results["sku_rationalization"].frames.metrics.rows

ZombieRows == results["sku_rationalization"].frames.zombie_skus.rows

RevenueColumn == [ i \in 1..Len(MetricsRows) |-> Num(MetricsRows[i].revenue) ]

ProfitColumn == [ i \in 1..Len(MetricsRows) |-> MetricsRows[i].profit ]

UnitsColumn == [ i \in 1..Len(MetricsRows) |-> Num(MetricsRows[i].units) ]

\* the percentile of row i is not lower than that of every row with a
\* smaller value
PctMonotone(values) ==
    \A i, j \in 1..Len(values) :
        (~IsNaN(values[i]) /\ ~IsNaN(values[j]) /\ ValOf(values[i]) > ValOf(values[j]))
        => RatioLeq(ValOf(RankPct(values, j)), ValOf(RankPct(values, i)))

Dominates(a, b) ==
    /\ a.revenue > b.revenue
    /\ a.units > b.units
    /\ ~IsNaN(a.profit) /\ ~IsNaN(b.profit) /\ ValOf(a.profit) > ValOf(b.profit)

\* C6: a higher revenue, profit or units value never has a lower percentile
\* rank, and a sku that is higher in all three never has a lower composite
\* score.
C6_PercentileMonotone ==
    Analyzed =>
        /\ PctMonotone(RevenueColumn)
        /\ PctMonotone(ProfitColumn)
        /\ PctMonotone(UnitsColumn)
        /\ \A i, j \in 1..Len(MetricsRows) :
             Dominates(MetricsRows[i], MetricsRows[j])
             => RatioLeq(ValOf(MetricsRows[j].composite_score),
                         ValOf(MetricsRows[i].composite_score))

IsActive(r) == r.revenue > 0 \/ r.quantity_on_hand > 0

\* an active sku of the sales table without revenue and units but with
\* stock, below every other active sku in revenue, profit and units
DeadStock(r) ==
    /\ IsActive(r) /\ r.revenue = 0 /\ r.units = 0 /\ r.quantity_on_hand > 0
    /\ ~IsNaN(r.profit)
    /\ \A i \in 1..Len(MetricsRows) :
         (IsActive(MetricsRows[i]) /\ MetricsRows[i].sku # r.sku)
         => Dominates(MetricsRows[i], r)

\* C7: a dead-stock sku that every other active sku dominates is a zombie
\* with reason "No revenue", its working capital is quantity on hand times
\* cost per unit, and its final status is red with issue "Zombie product".
C7_DeadStockIsZombie ==
    Analyzed =>
        \A i \in 1..Len(MetricsRows) :
            DeadStock(MetricsRows[i]) =>
                /\ MetricsRows[i].working_capital
                     = MetricsRows[i].quantity_on_hand * MetricsRows[i].cost_per_unit
                /\ \E z \in 1..Len(ZombieRows) :
                     /\ ZombieRows[z].sku = MetricsRows[i].sku
                     /\ \E k \in 1..Len(ZombieRows[z].reason) :
                          ZombieRows[z].reason[k] = "No revenue"
                /\ (pc = "done") =>
                     /\ MetricsRows[i].sku \in DOMAIN status_map
                     /\ status_map[MetricsRows[i].sku].status = "red"
                     /\ HasIssue(status_map[MetricsRows[i].sku], "Zombie product")

\* threshold percentiles the zombie set is compared under
Percentiles == {0, 20, 40, 50, 60, 100}

ZombieSetAt(q) == FrameSkus(IdentifyZombies(MetricsRows, q))

\* C8: over one metrics table the zombie set of a smaller threshold
\* percentile is contained in the zombie set of a larger one, so lowering
\* the percentile never raises the zombie count.
C8_ZombieSetMonotone ==
    JustAnalyzed =>
        \A n1, n2 \in Percentiles :
            (n1 <= n2) =>
                LET z1 == ZombieSetAt(n1)
                    z2 == ZombieSetAt(n2)
                IN  z1 \subseteq z2 /\ Cardinality(z1) <= Cardinality(z2)

\* a table on which the zombie set of percentile 20 is not empty and that of
\* percentile 60 is strictly larger
C8_Witness ==
    /\ JustAnalyzed
    /\ ZombieSetAt(20) # {}
    /\ ZombieSetAt(20) # ZombieSetAt(60)
    /\ ZombieSetAt(60) # ZombieSetAt(100)

(***************************************************************************)
(* Properties of the pairwise tables                                       *)
(***************************************************************************)
\* the rows of a table of an analysis that has run, no rows otherwise
TableRows(analysis, key) ==
    IF analysis \in DOMAIN results THEN results[analysis].frames[key].rows ELSE <<>>

OverlapRows == TableRows("cannibalization", "overlap_matrix")

CannibalRows == TableRows("cannibalization", "cannibalization_pairs")

CorrelationRows == TableRows("bundle_opportunities", "view_correlations")

BundleRows == TableRows("bundle_opportunities", "bundle_opportunities")

\* no self-pair, and no unordered pair on two rows
PairsDistinct(rws) ==
    /\ \A i \in 1..Len(rws) : rws[i].sku1 # rws[i].sku2
    /\ \A i, j \in 1..Len(rws) :
         (i # j) => {rws[i].sku1, rws[i].sku2} # {rws[j].sku1, rws[j].sku2}

HasRepeatedRow(rws) == \E i, j \in 1..Len(rws) : i # j /\ rws[i] = rws[j]

\* the sku has more than one sales row
SalesSpread(sku) ==
    \E i, j \in 1..Len(sales_data) :
        i # j /\ sales_data[i].sku = sku /\ sales_data[j].sku = sku

\* C9: in the overlap matrix, the view correlations and the retained
\* cannibalization and bundle tables every row has two different skus and
\* no unordered pair occurs on two rows, whatever rows the event tables
\* repeat.
C9_PairsUnique ==
    /\ PairsDistinct(OverlapRows)
    /\ PairsDistinct(CannibalRows)
    /\ PairsDistinct(CorrelationRows)
    /\ PairsDistinct(BundleRows)

\* both analyses have run on event tables that repeat a row and a sku whose
\* sales are spread over two rows is in a retained pair of each kind
C9_Witness ==
    /\ pc = "consolidate"
    /\ HasRepeatedRow(customer_overlap)
    /\ HasRepeatedRow(product_views)
    /\ Len(OverlapRows) >= 3
    /\ \E i \in 1..Len(CannibalRows) :
         SalesSpread(CannibalRows[i].sku1) \/ SalesSpread(CannibalRows[i].sku2)
    /\ \E i \in 1..Len(BundleRows) :
         SalesSpread(BundleRows[i].sku1) \/ SalesSpread(BundleRows[i].sku2)

InUnitInterval(x) == 0 <= x.num /\ x.num <= x.den /\ x.den > 0

TotalRevenue(sku) == SumField(sales_data, sku, "revenue")

\* C11: on every retained cannibalization pair the stronger sku is the one of
\* the two with the higher total revenue, the weaker sku is the other one,
\* and revenue_at_risk is the smaller of the two revenues.
C11_StrongerHasHigherRevenue ==
    \A i \in 1..Len(CannibalRows) :
        LET r == CannibalRows[i] IN
        /\ {r.stronger_sku, r.weaker_sku} = {r.sku1, r.sku2}
        /\ TotalRevenue(r.stronger_sku) >= TotalRevenue(r.weaker_sku)
        /\ r.revenue_at_risk = Num(TotalRevenue(r.weaker_sku))


(***************************************************************************)
(* NewProductScoringAnalyzer (analyzers/new_product_scoring.py)            *)
(*                                                                         *)
(* A date is a day number, NaT is NaN.  Benchmarks, scores and the overall *)
(* score are exact ratios in lowest terms.                                 *)
(***************************************************************************)
\* analysis_windows: List[int] = [30, 60, 90]
ANALYSIS_WINDOWS == <<30, 60, 90>>

\* underperformers.head(10)
TopUnderperformers == 10

RECURSIVE GCD(_, _)
GCD(a, b) == IF b = 0 THEN a ELSE GCD(b, a % b)

\* the ratio in lowest terms
Norm(r) ==
    LET g == GCD(IF r.num < 0 THEN 0 - r.num ELSE r.num, r.den)
    IN  Ratio(r.num \div g, r.den \div g)

AddRatio(a, b) == Norm(Ratio(a.num * b.den + b.num * a.den, a.den * b.den))

\* a date text that does not parse: a column value that is neither a day
\* nor missing
Malformed == <<0, 0>>

\* pd.to_datetime(column, errors='coerce') of one value
ToDatetimeCoerce(v) == IF v = Malformed THEN NaN ELSE v

\* a row of the sales table with its date
DatedSale(s, rev, u, d) == [sku |-> s, revenue |-> rev, units |-> u, date |-> d]

\* the launch date a left merge on sku gives a sales row
LaunchDateOf(launches, sku) ==
    IF sku \in RowSkus(launches) THEN RowOf(launches, sku).launch_date ELSE NaN

\* merged['days_since_launch'] = (merged['date'] - merged['launch_date']).dt.days
DaysSinceLaunch(sale, launches) ==
    LET launch == ToDatetimeCoerce(LaunchDateOf(launches, sale.sku))
        date == ToDatetimeCoerce(sale.date)
    IN  IF IsNaN(date) \/ IsNaN(launch) THEN NaN
        ELSE Num(ValOf(date) - ValOf(launch))

\* merged[(days_since_launch >= 0) & (days_since_launch <= window)]
WindowSales(sales, launches, window) ==
    SelectSeq(sales, LAMBDA r :
        LET d == DaysSinceLaunch(r, launches)
        IN  ~IsNaN(d) /\ ValOf(d) >= 0 /\ ValOf(d) <= window)

\* groupby('sku').agg({'revenue': 'sum', 'units': 'sum'}).reset_index()
WindowSummary(rws) ==
    LET keys == SeqOfSet(RowSkus(rws))
    IN  [ i \in 1..Len(keys) |->
            [sku |-> keys[i],
             revenue |-> SumField(rws, keys[i], "revenue"),
             units |-> SumField(rws, keys[i], "units")] ]

\* the place of value v in an increasing sequence
InsertValue(v, sorted) ==
    LET before == SelectSeq(sorted, LAMBDA x : x <= v)
        after  == SelectSeq(sorted, LAMBDA x : x > v)
    IN  before \o <<v>> \o after

RECURSIVE SortValuesFrom(_, _)
SortValuesFrom(sorted, rest) ==
    IF rest = <<>> THEN sorted
    ELSE SortValuesFrom(InsertValue(Head(rest), sorted), Tail(rest))

\* Series.quantile(q / 100), linear interpolation; NaN for an empty column
Quantile(rws, field, q) ==
    IF rws = <<>> THEN NaN
    ELSE LET ordered == SortValuesFrom(<<>>, [ i \in 1..Len(rws) |-> rws[i][field] ])
         IN  Num(Norm(Percentile([ i \in 1..Len(ordered) |-> Ratio(ordered[i], 1) ], q)))

\* _calculate_benchmarks, one entry per window
Benchmarks(sales, info) ==
    [ w \in Range(ANALYSIS_WINDOWS) |->
        LET window_summary == WindowSummary(WindowSales(sales, info, w))
        IN  [revenue_p50 |-> Quantile(window_summary, "revenue", 50),
             revenue_p75 |-> Quantile(window_summary, "revenue", 75),
             revenue_p90 |-> Quantile(window_summary, "revenue", 90),
             units_p50 |-> Quantile(window_summary, "units", 50),
             units_p75 |-> Quantile(window_summary, "units", 75),
             units_p90 |-> Quantile(window_summary, "units", 90)] ]

\* 'launch_date' in product_info.columns
HasLaunchDate(info) == info # <<>> /\ "launch_date" \in DOMAIN info[1]

\* _identify_new_products: the products launched on or after the cutoff,
\* with the days since their launch
IdentifyNewProducts(info, current_date) ==
    IF ~HasLaunchDate(info) THEN <<>>
    ELSE LET cutoff_date == current_date - ANALYSIS_WINDOWS[Len(ANALYSIS_WINDOWS)]
             parsed == [ i \in 1..Len(info) |->
                           [info[i] EXCEPT !.launch_date = ToDatetimeCoerce(@)] ]
             recent == SelectSeq(parsed, LAMBDA r :
                           ~IsNaN(r.launch_date) /\ ValOf(r.launch_date) >= cutoff_date)
         IN  [ i \in 1..Len(recent) |->
                 [ f \in (DOMAIN recent[i]) \cup {"days_since_launch"} |->
                     IF f = "days_since_launch"
                     THEN current_date - ValOf(recent[i].launch_date)
                     ELSE recent[i][f] ] ]

\* min(value / p75, 1.0) if p75 > 0 else 0
ScoreAgainstP75(value, p75) ==
    IF ~IsNaN(p75) /\ ValOf(p75).num > 0
    THEN LET quotient == Norm(Ratio(value * ValOf(p75).den, ValOf(p75).num))
         IN  IF RatioLeq(quotient, Ratio(1, 1)) THEN quotient ELSE Ratio(1, 1)
    ELSE Ratio(0, 1)

\* the score of a value against the benchmarks of its window
WindowScore(value, p50, p75) ==
    IF ~IsNaN(p50) /\ ValOf(p50).num > 0 THEN ScoreAgainstP75(value, p75)
    ELSE Ratio(0, 1)


\* the sums, per sku and window, of the sales of the new products
\* (all_window_scores); launch dates are taken from the new products only
AllWindowScores(new_products, sales) ==
    [ w \in Range(ANALYSIS_WINDOWS) |-> WindowSummary(WindowSales(sales, new_products, w)) ]

\* the columns f'{window}_revenue', f'{window}_units', f'{window}_revenue_score'
\* and f'{window}_units_score' of one sku, as a record per window
SkuWindowScores(sku, all_window_scores, benchmarks) ==
    [ w \in Range(ANALYSIS_WINDOWS) |->
        IF sku \in RowSkus(all_window_scores[w])
        THEN LET window_data == RowOf(all_window_scores[w], sku)
                 bench == benchmarks[w]
             IN  [revenue |-> window_data.revenue,
                  units |-> window_data.units,
                  revenue_score |-> WindowScore(window_data.revenue,
                                                bench.revenue_p50, bench.revenue_p75),
                  units_score |-> WindowScore(window_data.units,
                                              bench.units_p50, bench.units_p75)]
        ELSE [revenue |-> 0, units |-> 0,
              revenue_score |-> Ratio(0, 1), units_score |-> Ratio(0, 1)] ]

RECURSIVE SumScores(_, _, _)
SumScores(windows, field, ws) ==
    IF ws = <<>> THEN Ratio(0, 1)
    ELSE AddRatio(windows[Head(ws)][field], SumScores(windows, field, Tail(ws)))

\* np.mean(revenue_scores) * 0.6 + np.mean(units_scores) * 0.4
OverallScore(windows) ==
    LET revenue_sum == SumScores(windows, "revenue_score", ANALYSIS_WINDOWS)
        units_sum == SumScores(windows, "units_score", ANALYSIS_WINDOWS)
        n == Len(ANALYSIS_WINDOWS)
    IN  AddRatio(Norm(Ratio(6 * revenue_sum.num, 10 * n * revenue_sum.den)),
                 Norm(Ratio(4 * units_sum.num, 10 * n * units_sum.den)))

\* _categorize_performance of a score that is not NaN
CategorizePerformance(score) ==
    IF RatioLeq(Ratio(8, 10), score) THEN "winner"
    ELSE IF RatioLeq(Ratio(6, 10), score) THEN "solid"
    ELSE IF RatioLeq(Ratio(4, 10), score) THEN "underperforming"
    ELSE "poor"

\* _score_new_products: one row per new product, with its window scores, its
\* overall score and its category
ScoreNewProducts(new_products, sales, benchmarks) ==
    LET all_window_scores == AllWindowScores(new_products, sales)
    IN  [ i \in 1..Len(new_products) |->
          LET windows == SkuWindowScores(new_products[i].sku, all_window_scores, benchmarks)
              overall == OverallScore(windows)
          IN  [ f \in (DOMAIN new_products[i])
                      \cup {"windows", "overall_score", "performance_category"} |->
                  CASE f = "windows" -> windows
                    [] f = "overall_score" -> overall
                    [] f = "performance_category" -> CategorizePerformance(overall)
                    [] OTHER -> new_products[i][f] ] ]

\* the place of a row among rows in increasing order of overall score
InsertByOverall(r, sorted) ==
    LET before == SelectSeq(sorted, LAMBDA x : RatioLeq(x.overall_score, r.overall_score))
        after  == SelectSeq(sorted, LAMBDA x : RatioLess(r.overall_score, x.overall_score))
    IN  before \o <<r>> \o after

RECURSIVE SortByOverallFrom(_, _)
SortByOverallFrom(sorted, rest) ==
    IF rest = <<>> THEN sorted
    ELSE SortByOverallFrom(InsertByOverall(Head(rest), sorted), Tail(rest))

\* _identify_underperformers
IdentifyUnderperformers(scores) ==
    SortByOverallFrom(<<>>, SelectSeq(scores, LAMBDA r :
        r.performance_category \in {"underperforming", "poor"}))

\* _generate_recommendations: one for the winners, one for the
\* underperformers, then "SKU <sku> (<name>): Score <score>" for the first
\* ten underperformers
NewProductRecommendations(scores, underperformers) ==
    LET winners == SelectSeq(scores, LAMBDA r : r.performance_category = "winner")
        top == SubSeq(underperformers, 1,
                      IF Len(underperformers) < TopUnderperformers
                      THEN Len(underperformers) ELSE TopUnderperformers)
    IN  (IF Len(winners) > 0 THEN <<Rec("success", "low", 0, FALSE, {})>> ELSE <<>>)
        \o (IF Len(underperformers) > 0
            THEN <<Rec("warning", "high", 0, FALSE, {})>>
                 \o [ i \in 1..Len(top) |->
                        Rec("new_product_action",
                            IF RatioLess(top[i].overall_score, Ratio(3, 10))
                            THEN "high" ELSE "medium",
                            i, TRUE, {top[i].sku}) ]
            ELSE <<>>)

NewProductColumns == {"sku", "launch_date", "days_since_launch"}

ScoreColumns == NewProductColumns \cup {"windows", "overall_score", "performance_category"}

\* NewProductScoringAnalyzer.analyze at the given current date
NewProductScoring(sales, info, current_date) ==
    LET new_products == IdentifyNewProducts(info, current_date)
    IN  IF Len(new_products) = 0
        THEN [kind |-> "dict",
              frames |-> [new_products |-> EmptyFrame, scores |-> EmptyFrame],
              benchmarks |-> <<>>,
              recommendations |-> <<>>,
              summary |-> [new_products_count |-> 0]]
        ELSE LET benchmarks == Benchmarks(sales, info)
                 scores == ScoreNewProducts(new_products, sales, benchmarks)
                 underperformers == IdentifyUnderperformers(scores)
             IN  [kind |-> "dict",
                  frames |-> [new_products |-> Frame(NewProductColumns, new_products),
                              scores |-> Frame(ScoreColumns, scores),
                              underperformers |-> Frame(ScoreColumns, underperformers)],
                  benchmarks |-> benchmarks,
                  recommendations |-> NewProductRecommendations(scores, underperformers),
                  summary |-> [new_products_count |-> Len(new_products),
                               underperformers_count |-> Len(underperformers),
                               winners_count |->
                                   Len(SelectSeq(scores, LAMBDA r :
                                           RatioLeq(Ratio(7, 10), r.overall_score)))]]


(***************************************************************************)
(* Scoring specification: the new-product analysis of run_full_analysis    *)
(* (lines 115-117) over dated sales and launch dates.  The analyzer is     *)
(* called without a current date, so it reads the clock (datetime.now()).  *)
(***************************************************************************)
NumScoredSkus == 3

ScoredSkus == 1..NumScoredSkus

\* the days on which the run may happen
Clock == {100, 200}

\* what the tables hold about one sku: its product-info rows and its sales
ProductOptions(s) ==
    << \* launched long ago, sold in its first 30 days
       [info |-> <<[sku |-> s, launch_date |-> Num(0)]>>,
        sales |-> <<DatedSale(s, 200, 2, Num(20))>>],
       \* launched long ago, sold cheaply in its first 30 days
       [info |-> <<[sku |-> s, launch_date |-> Num(0)]>>,
        sales |-> <<DatedSale(s, 60, 3, Num(20))>>],
       \* launched long ago, given away in its first 30 days
       [info |-> <<[sku |-> s, launch_date |-> Num(0)]>>,
        sales |-> <<DatedSale(s, 0, 0, Num(20))>>],
       \* launched on day 80, sold ten days later
       [info |-> <<[sku |-> s, launch_date |-> Num(80)]>>,
        sales |-> <<DatedSale(s, 100, 1, Num(90))>>],
       \* launched on day 80, sold ten and forty-five days later
       [info |-> <<[sku |-> s, launch_date |-> Num(80)]>>,
        sales |-> <<DatedSale(s, 100, 1, Num(90)), DatedSale(s, 300, 2, Num(125))>>],
       \* launched on day 80, never sold
       [info |-> <<[sku |-> s, launch_date |-> Num(80)]>>,
        sales |-> <<>>],
       \* launched on day 80, sold on a date that does not parse
       [info |-> <<[sku |-> s, launch_date |-> Num(80)]>>,
        sales |-> <<DatedSale(s, 50, 1, Malformed)>>],
       \* a launch date that does not parse
       [info |-> <<[sku |-> s, launch_date |-> Malformed]>>,
        sales |-> <<DatedSale(s, 50, 1, Num(90))>>] >>

InitScoring ==
    \E choice \in [ScoredSkus -> DOMAIN ProductOptions(1)] :
        /\ sales_data = FlatMap([ s \in ScoredSkus |-> ProductOptions(s)[choice[s]].sales ],
                                SeqOfSet(ScoredSkus))
        /\ product_info = FlatMap([ s \in ScoredSkus |-> ProductOptions(s)[choice[s]].info ],
                                  SeqOfSet(ScoredSkus))
        /\ inventory_data = <<>>
        /\ product_views = <<>>
        /\ customer_overlap = RecordedPurchases
        /\ results = [platform |-> Scalar, analysis_date |-> Scalar,
                      analysis_period_days |-> Scalar]
        /\ consolidated_recommendations = <<>>
        /\ all_skus = {}
        /\ status_map = <<>>
        /\ pc = "new_product_scoring"
        /\ row = 1

\* results['new_product_scoring'] = new_product_analyzer.analyze(sales_data,
\* product_info): current_date is None, so it is datetime.now()
AnalyzeNewProductScoring ==
    /\ pc = "new_product_scoring"
    /\ \E now \in Clock :
         results' = Extend(results, "new_product_scoring",
                           NewProductScoring(sales_data, product_info, now))
    /\ pc' = "bundle_opportunities"
    /\ UNCHANGED <<sales_data, inventory_data, product_info, product_views,
                   customer_overlap, consolidated_recommendations, all_skus,
                   status_map, row>>

NextScoring == AnalyzeNewProductScoring

SpecScoring == InitScoring /\ [][NextScoring]_vars

(***************************************************************************)
(* Properties of the new-product scores                                    *)
(***************************************************************************)
Scored == "new_product_scoring" \in DOMAIN results

ScoreRows == IF Scored THEN GetFrame(results["new_product_scoring"], "scores").rows
             ELSE <<>>

\* the sales of the sku that the window of its launch holds
SalesInWindow(sku, w) ==
    SelectSeq(WindowSales(sales_data, product_info, w), LAMBDA r : r.sku = sku)

\* the skus with sales in the window of their own launch (the benchmark
\* population) and their revenue or units there
Population(w, field) ==
    LET held == WindowSales(sales_data, product_info, w)
        keys == SeqOfSet(RowSkus(held))
    IN  [ i \in 1..Len(keys) |-> SumField(held, keys[i], field) ]

\* the q-th percentile of the population, linear interpolation, times 100
Percentile100(values, q) ==
    LET ordered == SortValuesFrom(<<>>, values)
        m == Len(ordered)
        i == (q * (m - 1)) \div 100
        rest == (q * (m - 1)) % 100
    IN  100 * ordered[i + 1]
        + (IF rest = 0 THEN 0 ELSE rest * (ordered[i + 2] - ordered[i + 1]))

\* score = min(actual / p75, 1), 0 when p75 is 0 or undefined
ClaimedScore(actual, values) ==
    IF values = <<>> THEN Ratio(0, 1)
    ELSE LET p75 == Percentile100(values, 75)
         IN  IF p75 <= 0 THEN Ratio(0, 1)
             ELSE IF 100 * actual >= p75 THEN Ratio(1, 1)
             ELSE Ratio(100 * actual, p75)

SameRatio(a, b) == a.num * b.den = b.num * a.den

\* C12: for every new product and window, revenue_score is
\* min(actual revenue / p75 revenue, 1) when the p75 of the window's
\* population is above 0, and 0 when it is 0 or undefined; units_score is
\* the same over units; both are 0 when the sku has no sales in the window.
C12_ScoreIsCappedShareOfP75 ==
    \A i \in 1..Len(ScoreRows) : \A w \in Range(ANALYSIS_WINDOWS) :
        LET r == ScoreRows[i]
            mine == SalesInWindow(r.sku, w)
        IN  IF mine = <<>>
            THEN /\ SameRatio(r.windows[w].revenue_score, Ratio(0, 1))
                 /\ SameRatio(r.windows[w].units_score, Ratio(0, 1))
            ELSE /\ SameRatio(r.windows[w].revenue_score,
                              ClaimedScore(SumField(mine, r.sku, "revenue"),
                                           Population(w, "revenue")))
                 /\ SameRatio(r.windows[w].units_score,
                              ClaimedScore(SumField(mine, r.sku, "units"),
                                           Population(w, "units")))


(***************************************************************************)
(* Properties of the run over empty and degenerate inputs                  *)
(***************************************************************************)
\* the cannibalization analysis has been called
PastCannibalization == pc \notin {"sku_rationalization", "cannibalization"}

\* the bundle analysis has been called
PastBundleFinder == PastCannibalization /\ pc # "bundle_opportunities"
                    /\ ~CannibalizationRaises(customer_overlap)

\* the purchase events give no pair of skus
NoPurchasePair == Len(UniqueSkus(customer_overlap)) < 2

\* the view events give no pair of skus
NoViewPair == Cardinality(RowSkus(product_views)) < 2

\* the analysis has an entry with empty tables and no recommendation
EmptyResult(name, tables) ==
    /\ name \in DOMAIN results
    /\ results[name].recommendations = <<>>
    /\ \A t \in tables : Len(GetFrame(results[name], t).rows) = 0

\* C13: an analyzer called with empty tables, or with events that give no
\* pair (an empty purchase table, purchases or views of a single sku),
\* returns without raising, with empty tables and no recommendation.
C13_EmptyInputsReturnEmptyResults ==
    /\ (PastCannibalization /\ NoPurchasePair)
         => EmptyResult("cannibalization", {"overlap_matrix", "cannibalization_pairs"})
    /\ (PastBundleFinder /\ NoViewPair)
         => EmptyResult("bundle_opportunities", {"view_correlations", "bundle_opportunities"})


(***************************************************************************)
(* Properties of the entries of the result bundle                          *)
(***************************************************************************)
\* the findings an analysis entry reports, under either key
Findings(entry) ==
    IF "recommendations" \in DOMAIN entry THEN entry.recommendations
    ELSE IF "insights" \in DOMAIN entry THEN entry.insights
    ELSE <<>>

Consolidated == pc \notin {"sku_rationalization", "cannibalization", "new_product_scoring",
                           "bundle_opportunities", "raised", "consolidate"}

\* C14: each of the six analysis entries of the result bundle has a summary
\* map and a recommendations list, and an analysis that reports findings has
\* records in the consolidated recommendations.
C14_EveryEntryHasSummaryAndRecommendations ==
    \A k \in Range(AnalysisNames) :
        k \in DOMAIN results =>
            /\ "summary" \in DOMAIN results[k]
            /\ "recommendations" \in DOMAIN results[k]
            /\ (Consolidated /\ Findings(results[k]) # <<>>)
                 => \E j \in 1..Len(consolidated_recommendations) :
                        consolidated_recommendations[j].source_analysis = k


(***************************************************************************)
(* Reproducibility of a run                                                *)
(***************************************************************************)
\* C15: the outputs of a run are determined by the input snapshot and the
\* configuration, whatever the day on which the run happens: the
\* new-product entry (its set of new products, its scores, its
\* recommendations) is the one any other run over the same tables gives.
C15_OutputIndependentOfClock ==
    Scored => \A now \in Clock :
                  results["new_product_scoring"]
                      = NewProductScoring(sales_data, product_info, now)


(***************************************************************************)
(* Failure of one analysis component                                       *)
(***************************************************************************)
\* an analysis that has been called has raised
ComponentRaised ==
    \/ PastCannibalization /\ CannibalizationRaises(customer_overlap)
    \/ PastBundleFinder /\ BundleFinderRaises(product_views)

\* the analyses that have been called
CalledAnalyses ==
    {"sku_rationalization"}
    \cup (IF PastCannibalization THEN {"cannibalization"} ELSE {})
    \cup (IF PastBundleFinder THEN {"bundle_opportunities"} ELSE {})

\* C16: when an analysis component raises, the run is not aborted: the
\* component leaves an entry in the result bundle, the entries of the other
\* components are there, and the run goes on to the consolidation.
C16_FailureDoesNotAbortRun ==
    (pc # "sku_rationalization" /\ ComponentRaised)
        => /\ pc # "raised"
           /\ CalledAnalyses \subseteq DOMAIN results


(***************************************************************************)
(* Final status and issues of the traffic-light map                        *)
(***************************************************************************)
\* the skus of the rows a rule block iterates over
RuleSkus(rule) == RowSkus(RuleRows(results, rule))

RulesApplied == pc \in {"recs", "done"}

IssuesAmong(entry, texts) == SelectSeq(entry.issues, LAMBDA x : x \in texts)

\* C18: a money loser with an entry has the issue "Losing money" whatever
\* its status was when the rule reached it; a sku that is a zombie too stays
\* red and has "Zombie product" and then "Losing money".
C18_LosingMoneyAlwaysAppended ==
    RulesApplied =>
        \A s \in (DOMAIN status_map) \cap RuleSkus("losers") :
            /\ HasIssue(status_map[s], "Losing money")
            /\ s \in RuleSkus("zombies") =>
                 /\ status_map[s].status = "red"
                 /\ IssuesAmong(status_map[s], {"Zombie product", "Losing money"})
                      = <<"Zombie product", "Losing money">>

\* a finished run with a zombie that loses money and is in no other set
C18_Witness ==
    /\ pc = "done"
    /\ \E s \in (DOMAIN status_map) \cap RuleSkus("losers") \cap RuleSkus("zombies") :
          /\ status_map[s].status = "red"
          /\ status_map[s].issues = <<"Zombie product", "Losing money">>


\* C19: a new-product underperformer with an entry has the issue
\* "Underperforming new product" in its final issue list, whatever status
\* it had when the rule reached it.
C19_UnderperformerIssueAlwaysPresent ==
    RulesApplied =>
        \A s \in (DOMAIN status_map) \cap RuleSkus("new") :
            HasIssue(status_map[s], "Underperforming new product")


(***************************************************************************)
(* Membership of the zombie set                                            *)
(***************************************************************************)
ActiveRows == SelectSeq(MetricsRows, IsActive)

\* C20: a sku is a zombie iff it is active (revenue > 0 or quantity on hand
\* > 0) and its composite score is at most the 20th percentile of the
\* composite scores of the active skus; a sku without revenue and stock is
\* never a zombie, and there is a zombie whenever there is an active sku.
C20_ZombieIffActiveAndBelowThreshold ==
    JustAnalyzed =>
        LET active == ActiveRows
            zombies == RowSkus(ZombieRows)
        IN  /\ zombies \subseteq RowSkus(active)
            /\ (active # <<>>) => (zombies # {})
            /\ (active # <<>> /\ \A i \in 1..Len(active) : ~IsNaN(active[i].composite_score))
                 => LET ordered == SortByScore(active)
                        threshold == Percentile([ i \in 1..Len(ordered) |->
                                                    ValOf(ordered[i].composite_score) ],
                                                ZOMBIE_THRESHOLD_PERCENTILE)
                    IN  zombies = { active[i].sku : i \in
                                      { i \in 1..Len(active) :
                                          RatioLeq(ValOf(active[i].composite_score),
                                                   threshold) } }


(***************************************************************************)
(* Properties of the per-sku aggregation                                   *)
(***************************************************************************)
\* C21: the aggregation has one row for every sku of the sales or the
\* inventory table, and every numeric field of a row is a number (0 where
\* the join found nothing), so that profit and composite score are defined
\* for every sku.
C21_AggregationKeepsEverySkuWithNumbers ==
    JustAnalyzed =>
        /\ RowSkus(MetricsRows) = RowSkus(sales_data) \cup RowSkus(inventory_data)
        /\ \A i, j \in 1..Len(MetricsRows) :
             MetricsRows[i].sku = MetricsRows[j].sku => i = j
        /\ \A i \in 1..Len(MetricsRows) :
             /\ ~IsNaN(MetricsRows[i].fees)
             /\ ~IsNaN(MetricsRows[i].shipping_cost)
             /\ ~IsNaN(MetricsRows[i].profit)
             /\ ~IsNaN(MetricsRows[i].composite_score)


(***************************************************************************)
(* Working capital freed                                                   *)
(***************************************************************************)
RECURSIVE StockValue(_, _)
\* quantity on hand times cost per unit, summed over the rows of the skus
StockValue(rws, skus) ==
    IF rws = <<>> THEN 0
    ELSE (IF Head(rws).sku \in skus
          THEN Head(rws).quantity_on_hand * Head(rws).cost_per_unit ELSE 0)
         + StockValue(Tail(rws), skus)

\* C26: working_capital_freed is the sum of quantity_on_hand x
\* cost_per_unit over exactly the zombie set, 0 without zombies, and
\* summary.capital_freed is the same value.
C26_CapitalFreedIsZombieStockValue ==
    JustAnalyzed =>
        LET entry == results["sku_rationalization"]
            freed == StockValue(MetricsRows, RowSkus(ZombieRows))
        IN  /\ entry.financial_impact.working_capital_freed = freed
            /\ entry.summary.capital_freed = freed

\* an analysis with a stocked zombie next to a stocked sku that is no zombie
C26_Witness ==
    /\ JustAnalyzed
    /\ results["sku_rationalization"].financial_impact.working_capital_freed > 0
    /\ \E i \in 1..Len(MetricsRows) :
          /\ MetricsRows[i].sku \notin RowSkus(ZombieRows)
          /\ MetricsRows[i].working_capital > 0


(***************************************************************************)
(* Status and issues of an entry                                           *)
(***************************************************************************)
\* C29: in every state of the building of the status map, and in the final
\* map, an entry is green iff its issue list is empty, so a yellow or red
\* entry has at least one issue.
C29_GreenIffNoIssue ==
    \A s \in DOMAIN status_map :
        (status_map[s].status = "green") <=> (status_map[s].issues = <<>>)

\* the rules are under way: one entry is red with two issues, one is yellow,
\* and the underperformer block is still to come
C29_Witness ==
    /\ pc = "new"
    /\ \E s \in DOMAIN status_map :
          /\ status_map[s].status = "red"
          /\ Len(status_map[s].issues) >= 2
    /\ \E s \in DOMAIN status_map :
          /\ status_map[s].status = "yellow"
          /\ status_map[s].issues = <<"Losing money">>


(***************************************************************************)
(* Summary counts of the new-product scoring                               *)
(***************************************************************************)
\* the number of scored products in one of the categories
CountInCategories(categories) ==
    Len(SelectSeq(ScoreRows, LAMBDA r : r.performance_category \in categories))

\* C30: summary.winners_count is the number of scored products of category
\* winner and summary.underperformers_count the number of category
\* underperforming or poor.
C30_SummaryCountsMatchCategories ==
    (Scored /\ ScoreRows # <<>>) =>
        LET summary == results["new_product_scoring"].summary
        IN  /\ summary.winners_count = CountInCategories({"winner"})
            /\ summary.underperformers_count
                 = CountInCategories({"underperforming", "poor"})


(***************************************************************************)
(* SlowMoverAnalyzer (analyzers/slow_mover_detection.py)                   *)
(*                                                                         *)
(* Days of supply are ratios; the ratio with denominator 0 is np.inf, and  *)
(* the comparisons by cross-multiplication order it above every other.     *)
(***************************************************************************)
\* config.Config.SLOW_MOVER_DAYS_THRESHOLD
SLOW_MOVER_DAYS_THRESHOLD == 180

\* slow_movers.head(10)
TopSlowMovers == 10

\* np.inf
Infinity == Ratio(1, 0)

IsInf(x) == x.den = 0

\* pd.to_datetime(sales_data['date']), without errors='coerce', raises on a
\* text that does not parse
ToDatetimeRaises(sales) ==
    \E i \in 1..Len(sales) : "date" \in DOMAIN sales[i] /\ sales[i].date = Malformed

\* 'date' in sales_data.columns
HasDateColumn(sales) == sales = <<>> \/ "date" \in DOMAIN sales[1]

\* the days between the first and the last dated sale, at least 1; NaN when
\* no sale has a date; 90 when the table has no date column
DateRange(sales) ==
    IF ~HasDateColumn(sales) THEN Num(90)
    ELSE LET days == { ValOf(sales[i].date) :
                         i \in { i \in 1..Len(sales) : ~IsNaN(sales[i].date) } }
         IN  IF days = {} THEN NaN
             ELSE LET last == CHOOSE d \in days : \A e \in days : e <= d
                      span == last - Min(days)
                  IN  Num(IF span > 1 THEN span ELSE 1)

\* SlowMoverAnalyzer._merge_data: units and revenue summed by sku, outer
\* merge with inventory; units, quantity_on_hand, cost_per_unit and
\* sales_period_days are filled, revenue is not
SlowMergeData(sales, inventory) ==
    LET keys == SeqOfSet(RowSkus(sales) \cup RowSkus(inventory))
        date_range == DateRange(sales)
    IN  [ i \in 1..Len(keys) |->
          LET k == keys[i]
              sold == k \in RowSkus(sales)
              stocked == k \in RowSkus(inventory)
          IN  [sku |-> k,
               units |-> IF sold THEN SumField(sales, k, "units") ELSE 0,
               revenue |-> IF sold THEN Num(SumField(sales, k, "revenue")) ELSE NaN,
               sales_period_days |-> date_range,
               quantity_on_hand |-> IF stocked THEN RowOf(inventory, k).quantity_on_hand ELSE 0,
               cost_per_unit |-> IF stocked THEN RowOf(inventory, k).cost_per_unit ELSE 0] ]

\* _calculate_velocity: np.where(sales_period_days > 0, units / days, 0)
UnitsPerDay(r) ==
    IF ~IsNaN(r.sales_period_days) /\ ValOf(r.sales_period_days) > 0
    THEN Ratio(r.units, ValOf(r.sales_period_days))
    ELSE Ratio(0, 1)

DaysOfSupplyZeroDefault(r) ==
    LET units_per_day == UnitsPerDay(r)
    IN  IF units_per_day.num > 0
        THEN Ratio(r.quantity_on_hand * units_per_day.den, units_per_day.num)
        ELSE Ratio(0, 1)

\* np.where(units_per_day > 0, quantity_on_hand / units_per_day, np.inf)
DaysOfSupply(r) ==
    LET units_per_day == UnitsPerDay(r)
    IN  IF units_per_day.num > 0
        THEN Ratio(r.quantity_on_hand * units_per_day.den, units_per_day.num)
        ELSE Infinity

\* _categorize_age
CategorizeAge(days) ==
    IF IsInf(days) \/ days.num = 0 THEN "no_sales"
    ELSE IF RatioLeq(Ratio(SLOW_MOVER_DAYS_THRESHOLD, 1), days) THEN "critical"
    ELSE IF RatioLeq(Ratio(90, 1), days) THEN "slow"
    ELSE IF RatioLeq(Ratio(30, 1), days) THEN "normal"
    ELSE "fast"

\* _get_urgency
GetUrgency(days) ==
    IF IsInf(days) THEN "critical"
    ELSE IF RatioLeq(Ratio(365, 1), days) THEN "critical"
    ELSE IF RatioLeq(Ratio(SLOW_MOVER_DAYS_THRESHOLD, 1), days) THEN "high"
    ELSE "medium"

\* _calculate_velocity and _calculate_days_of_supply
CalculateDaysOfSupply(merged) ==
    [ i \in 1..Len(merged) |->
        LET r == merged[i]
            days == DaysOfSupply(r)
        IN  [sku |-> r.sku, units |-> r.units, revenue |-> r.revenue,
             sales_period_days |-> r.sales_period_days,
             quantity_on_hand |-> r.quantity_on_hand, cost_per_unit |-> r.cost_per_unit,
             units_per_day |-> UnitsPerDay(r),
             inventory_turnover |-> IF r.quantity_on_hand > 0
                                    THEN Ratio(r.units, r.quantity_on_hand)
                                    ELSE Ratio(0, 1),
             days_of_supply |-> days,
             inventory_value |-> r.quantity_on_hand * r.cost_per_unit,
             inventory_age_category |-> CategorizeAge(days)] ]

\* the place of a row among rows in decreasing order of days of supply
InsertByDays(r, sorted) ==
    LET before == SelectSeq(sorted, LAMBDA x : RatioLeq(r.days_of_supply, x.days_of_supply))
        after  == SelectSeq(sorted, LAMBDA x : RatioLess(x.days_of_supply, r.days_of_supply))
    IN  before \o <<r>> \o after

RECURSIVE SortByDaysFrom(_, _)
SortByDaysFrom(sorted, rest) ==
    IF rest = <<>> THEN sorted
    ELSE SortByDaysFrom(InsertByDays(Head(rest), sorted), Tail(rest))

\* _identify_slow_movers
IdentifySlowMovers(days_supply) ==
    LET slow == SelectSeq(days_supply, LAMBDA r :
                    RatioLeq(Ratio(SLOW_MOVER_DAYS_THRESHOLD, 1), r.days_of_supply)
                    \/ IsInf(r.days_of_supply))
        sorted == SortByDaysFrom(<<>>, slow)
    IN  [ i \in 1..Len(sorted) |->
            [ f \in (DOMAIN sorted[i]) \cup {"urgency"} |->
                IF f = "urgency" THEN GetUrgency(sorted[i].days_of_supply)
                ELSE sorted[i][f] ] ]

\* _generate_recommendations: "Immediate markdown needed for n SKUs",
\* "Markdown n slow-moving SKUs", then "SKU <sku>: ..." for the first ten
SlowMoverRecommendations(slow_movers) ==
    IF Len(slow_movers) = 0 THEN <<>>
    ELSE LET critical == SelectSeq(slow_movers, LAMBDA r : r.urgency = "critical")
             high_priority == SelectSeq(slow_movers, LAMBDA r :
                                  r.urgency = "high"
                                  /\ RatioLeq(Ratio(SLOW_MOVER_DAYS_THRESHOLD, 1),
                                              r.days_of_supply))
             top == SubSeq(slow_movers, 1,
                           IF Len(slow_movers) < TopSlowMovers THEN Len(slow_movers)
                           ELSE TopSlowMovers)
         IN  (IF Len(critical) > 0
              THEN <<Rec("markdown_urgent", "critical", 0, TRUE, {})>> ELSE <<>>)
             \o (IF Len(high_priority) > 0
                 THEN <<Rec("markdown", "high", 0, TRUE, {})>> ELSE <<>>)
             \o [ i \in 1..Len(top) |->
                    Rec("sku_action", top[i].urgency, i, TRUE, {top[i].sku}) ]

VelocityColumns == {"sku", "units", "revenue", "sales_period_days", "quantity_on_hand",
                    "cost_per_unit", "product_name", "category", "price", "units_per_day",
                    "revenue_per_day", "inventory_turnover", "days_of_supply",
                    "inventory_value", "inventory_age_category"}

\* SlowMoverAnalyzer.analyze, for a sales table whose dates parse
SlowMover(sales, inventory) ==
    LET days_supply == CalculateDaysOfSupply(SlowMergeData(sales, inventory))
        slow_movers == IdentifySlowMovers(days_supply)
    IN  [kind |-> "dict",
         frames |-> [velocity_analysis |-> Frame(VelocityColumns, days_supply),
                     slow_movers |-> Frame(VelocityColumns \cup {"urgency"}, slow_movers)],
         recommendations |-> SlowMoverRecommendations(slow_movers),
         summary |-> [total_skus_analyzed |-> Len(days_supply),
                      slow_movers_count |-> Len(slow_movers),
                      total_slow_inventory_value |->
                          IF Len(slow_movers) > 0
                          THEN SumColumn(slow_movers, "inventory_value") ELSE 0,
                      threshold_days |-> SLOW_MOVER_DAYS_THRESHOLD]]


(***************************************************************************)
(* Slow-mover specification: the slow-mover analysis of run_full_analysis  *)
(* (lines 109-111) over dated sales and inventory.                         *)
(***************************************************************************)
NumStockedSkus == 3

StockedSkus == 1..NumStockedSkus

StockRow(s, q) == [sku |-> s, quantity_on_hand |-> q, cost_per_unit |-> 2]

\* what the tables hold about one sku: its sales and its inventory row
StockOptions(s) ==
    << \* sold at both ends of a 90-day period, stocked
       [sales |-> <<DatedSale(s, 100, 10, Num(0)), DatedSale(s, 100, 10, Num(90))>>,
        stock |-> <<StockRow(s, 50)>>],
       \* stocked, never sold
       [sales |-> <<>>, stock |-> <<StockRow(s, 50)>>],
       \* sold, not in the inventory table
       [sales |-> <<DatedSale(s, 50, 5, Num(30))>>, stock |-> <<>>],
       \* a sales row without units, stocked
       [sales |-> <<DatedSale(s, 0, 0, Num(30))>>, stock |-> <<StockRow(s, 50)>>],
       \* one unit sold, stocked
       [sales |-> <<DatedSale(s, 10, 1, Num(60))>>, stock |-> <<StockRow(s, 50)>>],
       \* sold on a date that does not parse
       [sales |-> <<DatedSale(s, 50, 5, Malformed)>>, stock |-> <<StockRow(s, 50)>>],
       \* sold on a missing date
       [sales |-> <<DatedSale(s, 50, 5, NaN)>>, stock |-> <<StockRow(s, 50)>>],
       \* sold fast, little stock
       [sales |-> <<DatedSale(s, 500, 50, Num(10))>>, stock |-> <<StockRow(s, 10)>>] >>

InitSlow ==
    \E choice \in [StockedSkus -> DOMAIN StockOptions(1)] :
        /\ sales_data = FlatMap([ s \in StockedSkus |-> StockOptions(s)[choice[s]].sales ],
                                SeqOfSet(StockedSkus))
        /\ inventory_data = FlatMap([ s \in StockedSkus |-> StockOptions(s)[choice[s]].stock ],
                                    SeqOfSet(StockedSkus))
        /\ product_info = SkuRows(StockedSkus)
        /\ product_views = <<>>
        /\ customer_overlap = RecordedPurchases
        /\ results = [platform |-> Scalar, analysis_date |-> Scalar,
                      analysis_period_days |-> Scalar]
        /\ consolidated_recommendations = <<>>
        /\ all_skus = {}
        /\ status_map = <<>>
        /\ pc = "slow_mover_detection"
        /\ row = 1

\* results['slow_mover_detection'] = slow_mover_analyzer.analyze(...): the
\* date column is parsed and written back to the sales table; an exception
\* leaves the run without a result bundle
AnalyzeSlowMovers ==
    /\ pc = "slow_mover_detection"
    /\ IF ToDatetimeRaises(sales_data)
       THEN pc' = "raised" /\ UNCHANGED <<results, sales_data>>
       ELSE /\ sales_data' = [ i \in 1..Len(sales_data) |->
                                 [sales_data[i] EXCEPT !.date = ToDatetimeCoerce(@)] ]
            /\ results' = Extend(results, "slow_mover_detection",
                                 SlowMover(sales_data, inventory_data))
            /\ pc' = "cannibalization"
    /\ UNCHANGED <<inventory_data, product_info, product_views, customer_overlap,
                   consolidated_recommendations, all_skus, status_map, row>>

NextSlow == AnalyzeSlowMovers

SpecSlow == InitSlow /\ [][NextSlow]_vars

(***************************************************************************)
(* Properties of the slow-mover analysis                                   *)
(***************************************************************************)
SlowAnalyzed == "slow_mover_detection" \in DOMAIN results

VelocityRows == IF SlowAnalyzed
                THEN GetFrame(results["slow_mover_detection"], "velocity_analysis").rows
                ELSE <<>>

SlowRows == IF SlowAnalyzed
            THEN GetFrame(results["slow_mover_detection"], "slow_movers").rows
            ELSE <<>>

\* the sku's sales rows record no unit at all
NoUnitsSold(sku) == SumField(sales_data, sku, "units") = 0

\* C27: a sku with zero sales velocity causes no error: its days of supply
\* is infinite, its age category is no_sales, it is a slow mover of urgency
\* critical; and every slow mover has urgency critical or high, critical
\* exactly when its days of supply is infinite or at least 365.
C27_ZeroVelocityIsCriticalNoSales ==
    (pc # "slow_mover_detection" /\ ~ToDatetimeRaises(sales_data)) =>
        /\ SlowAnalyzed
        /\ \A i \in 1..Len(VelocityRows) :
             LET r == VelocityRows[i] IN
             (NoUnitsSold(r.sku) \/ r.units_per_day.num = 0) =>
                 /\ r.units_per_day.num = 0
                 /\ IsInf(r.days_of_supply)
                 /\ r.inventory_age_category = "no_sales"
                 /\ \E j \in 1..Len(SlowRows) :
                      SlowRows[j].sku = r.sku /\ SlowRows[j].urgency = "critical"
        /\ \A j \in 1..Len(SlowRows) :
             /\ SlowRows[j].urgency \in {"critical", "high"}
             /\ (SlowRows[j].urgency = "critical")
                  <=> (IsInf(SlowRows[j].days_of_supply)
                       \/ SlowRows[j].days_of_supply.num
                            >= 365 * SlowRows[j].days_of_supply.den)

\* an analysis with a stocked sku that has a sales row without units, next
\* to a slow mover of urgency high
C27_Witness ==
    /\ SlowAnalyzed
    /\ \E i \in 1..Len(VelocityRows) :
          /\ VelocityRows[i].sku \in RowSkus(sales_data)
          /\ NoUnitsSold(VelocityRows[i].sku)
          /\ VelocityRows[i].quantity_on_hand > 0
          /\ IsInf(VelocityRows[i].days_of_supply)
    /\ \E j \in 1..Len(SlowRows) : SlowRows[j].urgency = "high"


(***************************************************************************)
(* Dates that do not parse                                                 *)
(***************************************************************************)
\* a sale of the table has a date text that does not parse
HasMalformedSaleDate ==
    \E i \in 1..Len(sales_data) : sales_data[i].date = Malformed

\* C28: a date that does not parse never aborts an analyzer: the analysis
\* completes with the date treated as missing, the record left out of the
\* date range.
C28_MalformedDateNeverAborts ==
    (pc # "slow_mover_detection" /\ HasMalformedSaleDate) =>
        /\ pc # "raised"
        /\ SlowAnalyzed


(***************************************************************************)
(* ContributionMarginAnalyzer (analyzers/contribution_margin.py)           *)
(*                                                                         *)
(* Half of the returns is a cost, so a margin is a ratio over 2.           *)
(***************************************************************************)
\* a row of the sales table with its costs and returns
MarginSale(s, rev, u, f, sh, ret) ==
    [sku |-> s, revenue |-> rev, units |-> u, fees |-> f, shipping_cost |-> sh,
     returns |-> ret]

\* ContributionMarginAnalyzer._merge_data: sales summed by sku, left merge
\* with the cost of the inventory table (0 where the sku is not stocked)
MarginMergeData(sales, inventory) ==
    LET keys == SeqOfSet(RowSkus(sales))
    IN  [ i \in 1..Len(keys) |->
          LET k == keys[i] IN
          [sku |-> k,
           revenue |-> SumField(sales, k, "revenue"),
           units |-> SumField(sales, k, "units"),
           fees |-> SumField(sales, k, "fees"),
           shipping_cost |-> SumField(sales, k, "shipping_cost"),
           returns |-> SumField(sales, k, "returns"),
           cost_per_unit |-> IF k \in RowSkus(inventory)
                             THEN RowOf(inventory, k).cost_per_unit ELSE 0] ]

\* _calculate_contribution_margins: revenue - (fees + shipping_cost
\* + units * cost_per_unit + returns * 0.5)
ContributionMargin(r) ==
    Ratio(2 * r.revenue
          - 2 * (r.fees + r.shipping_cost + r.units * r.cost_per_unit)
          - r.returns, 2)

\* doubled average rank of the i-th margin, smallest first:
\* Series.rank(), method 'average'
RankAscendingTwice(margins, i) ==
    2 * Cardinality({ j \in 1..Len(margins) : RatioLess(margins[j], margins[i]) })
    + Cardinality({ j \in 1..Len(margins) : margins[j] = margins[i] }) + 1

\* ranked['contribution_margin'].rank(pct=True)
ProfitPercentile(margins, i) == Ratio(RankAscendingTwice(margins, i), 2 * Len(margins))

CategorizeProductLadderFirst(r) ==
    IF RatioLeq(Ratio(8, 10), r.profit_percentile) THEN "top_performer"
    ELSE IF RatioLeq(Ratio(5, 10), r.profit_percentile) THEN "solid_performer"
    ELSE IF RatioLeq(Ratio(2, 10), r.profit_percentile) THEN "marginal"
    ELSE IF r.contribution_margin.num < 0 THEN "money_loser"
    ELSE "poor_performer"

\* _categorize_product
CategorizeProduct(r) ==
    IF r.contribution_margin.num < 0 THEN "money_loser"
    ELSE IF RatioLeq(Ratio(8, 10), r.profit_percentile) THEN "top_performer"
    ELSE IF RatioLeq(Ratio(5, 10), r.profit_percentile) THEN "solid_performer"
    ELSE IF RatioLeq(Ratio(2, 10), r.profit_percentile) THEN "marginal"
    ELSE "poor_performer"

\* the place of a row among rows in decreasing order of margin
InsertByMarginDescending(r, sorted) ==
    LET before == SelectSeq(sorted, LAMBDA x :
                      RatioLeq(r.contribution_margin, x.contribution_margin))
        after  == SelectSeq(sorted, LAMBDA x :
                      RatioLess(x.contribution_margin, r.contribution_margin))
    IN  before \o <<r>> \o after

\* the place of a row among rows in increasing order of margin
InsertByMarginAscending(r, sorted) ==
    LET before == SelectSeq(sorted, LAMBDA x :
                      RatioLeq(x.contribution_margin, r.contribution_margin))
        after  == SelectSeq(sorted, LAMBDA x :
                      RatioLess(r.contribution_margin, x.contribution_margin))
    IN  before \o <<r>> \o after

RECURSIVE SortByMarginFrom(_, _, _)
SortByMarginFrom(sorted, rest, ascending) ==
    IF rest = <<>> THEN sorted
    ELSE SortByMarginFrom(IF ascending THEN InsertByMarginAscending(Head(rest), sorted)
                          ELSE InsertByMarginDescending(Head(rest), sorted),
                          Tail(rest), ascending)

\* _calculate_contribution_margins and _rank_products: the rows by margin,
\* largest first, with rank, percentile and category
RankProducts(merged) ==
    LET margins == [ i \in 1..Len(merged) |->
                       [ f \in (DOMAIN merged[i]) \cup {"contribution_margin"} |->
                           IF f = "contribution_margin" THEN ContributionMargin(merged[i])
                           ELSE merged[i][f] ] ]
        sorted == SortByMarginFrom(<<>>, margins, FALSE)
        values == [ i \in 1..Len(sorted) |-> sorted[i].contribution_margin ]
    IN  [ i \in 1..Len(sorted) |->
          LET with_percentile ==
                [ f \in (DOMAIN sorted[i]) \cup {"rank", "profit_percentile"} |->
                    CASE f = "rank" -> i
                      [] f = "profit_percentile" -> ProfitPercentile(values, i)
                      [] OTHER -> sorted[i][f] ]
          IN  [ f \in (DOMAIN with_percentile) \cup {"category"} |->
                  IF f = "category" THEN CategorizeProduct(with_percentile)
                  ELSE with_percentile[f] ] ]

\* _identify_money_losers: the rows of negative margin, worst first
IdentifyMoneyLosers(ranked) ==
    SortByMarginFrom(<<>>, SelectSeq(ranked, LAMBDA r : r.contribution_margin.num < 0), TRUE)

RankedColumns == {"sku", "revenue", "units", "fees", "shipping_cost", "returns",
                  "cost_per_unit", "product_name", "category", "price", "cogs",
                  "return_cost", "total_costs", "contribution_margin",
                  "contribution_margin_pct", "profit_per_unit", "total_profit",
                  "rank", "profit_percentile"}

\* _generate_insights: the money-loser insight (the insights on the top 30
\* skus and on high revenue with low margin are left out)
MarginInsights(losers) ==
    IF Len(losers) > 0
    THEN <<Insight>>
    ELSE <<>>

\* ContributionMarginAnalyzer.analyze
ContributionMarginAnalysis(sales, inventory) ==
    LET ranked == RankProducts(MarginMergeData(sales, inventory))
        losers == IdentifyMoneyLosers(ranked)
    IN  [kind |-> "dict",
         frames |-> [ranked_products |-> Frame(RankedColumns, ranked),
                     money_losers |-> Frame(RankedColumns, losers)],
         insights |-> MarginInsights(losers),
         summary |-> [total_skus |-> Len(ranked),
                      profitable_skus |->
                          Len(SelectSeq(ranked, LAMBDA r : r.contribution_margin.num > 0)),
                      losing_skus |-> Len(losers)]]


(***************************************************************************)
(* Margin specification: the contribution-margin analysis of               *)
(* run_full_analysis (lines 106-108) over sales with costs and returns.    *)
(***************************************************************************)
NumMarginSkus == 6

MarginSkus == 1..NumMarginSkus

\* what the tables hold about one sku: its sales and its inventory row
MarginOptions(s) ==
    << \* sold at a profit that grows with the sku, stocked
       [sales |-> <<MarginSale(s, 100 + 10 * s, 1, 5, 5, 0)>>,
        stock |-> <<StockRow(s, 50)>>],
       \* sold at a loss that grows with the sku, one return, stocked
       [sales |-> <<MarginSale(s, 100, 10, 100 + s, 50, 1)>>,
        stock |-> <<StockRow(s, 50)>>],
       \* two sales that cost exactly what they bring, not stocked
       [sales |-> <<MarginSale(s, 20, 2, 10, 10, 0), MarginSale(s, 30, 3, 20, 10, 0)>>,
        stock |-> <<>>],
       \* never sold
       [sales |-> <<>>, stock |-> <<StockRow(s, 50)>>] >>

InitMargin ==
    \E choice \in [MarginSkus -> DOMAIN MarginOptions(1)] :
        /\ sales_data = FlatMap([ s \in MarginSkus |-> MarginOptions(s)[choice[s]].sales ],
                                SeqOfSet(MarginSkus))
        /\ inventory_data = FlatMap([ s \in MarginSkus |-> MarginOptions(s)[choice[s]].stock ],
                                    SeqOfSet(MarginSkus))
        /\ product_info = SkuRows(MarginSkus)
        /\ product_views = <<>>
        /\ customer_overlap = RecordedPurchases
        /\ results = [platform |-> Scalar, analysis_date |-> Scalar,
                      analysis_period_days |-> Scalar]
        /\ consolidated_recommendations = <<>>
        /\ all_skus = {}
        /\ status_map = <<>>
        /\ pc = "contribution_margin"
        /\ row = 1

\* results['contribution_margin'] = margin_analyzer.analyze(...)
AnalyzeContributionMargin ==
    /\ pc = "contribution_margin"
    /\ results' = Extend(results, "contribution_margin",
                         ContributionMarginAnalysis(sales_data, inventory_data))
    /\ pc' = "slow_mover_detection"
    /\ UNCHANGED <<sales_data, inventory_data, product_info, product_views,
                   customer_overlap, consolidated_recommendations, all_skus,
                   status_map, row>>

NextMargin == AnalyzeContributionMargin

SpecMargin == InitMargin /\ [][NextMargin]_vars

(***************************************************************************)
(* Properties of the contribution-margin analysis                          *)
(***************************************************************************)
MarginAnalyzed == "contribution_margin" \in DOMAIN results

RankedRows == results["contribution_margin"].frames.ranked_products.rows

MoneyLoserRows == results["contribution_margin"].frames.money_losers.rows

\* the share of ranked margins at or below the margin of r, ties at their
\* average place
PercentileAmong(r, rws) ==
    Ratio(2 * Cardinality({ j \in 1..Len(rws) :
                              RatioLess(rws[j].contribution_margin, r.contribution_margin) })
          + Cardinality({ j \in 1..Len(rws) :
                              rws[j].contribution_margin = r.contribution_margin }) + 1,
          2 * Len(rws))

\* the tier the rule gives to a margin and a percentile
ClaimedTier(margin, percentile) ==
    CASE margin.num < 0 -> "money_loser"
      [] margin.num >= 0 /\ 10 * percentile.num >= 8 * percentile.den -> "top_performer"
      [] margin.num >= 0 /\ 10 * percentile.num < 8 * percentile.den
         /\ 10 * percentile.num >= 5 * percentile.den -> "solid_performer"
      [] margin.num >= 0 /\ 10 * percentile.num < 5 * percentile.den
         /\ 10 * percentile.num >= 2 * percentile.den -> "marginal"
      [] OTHER -> "poor_performer"

\* C22: every ranked sku with a negative contribution margin is a
\* money_loser whatever its percentile; every other ranked sku is a
\* top_performer from percentile 0.8, a solid_performer from 0.5, marginal
\* from 0.2 and a poor_performer below; and the money_losers table holds
\* exactly the ranked skus whose tier is money_loser.
C22_MoneyLoserRuleFirst ==
    MarginAnalyzed =>
        /\ \A i \in 1..Len(RankedRows) :
              /\ RankedRows[i].profit_percentile = PercentileAmong(RankedRows[i], RankedRows)
              /\ RankedRows[i].category
                   = ClaimedTier(RankedRows[i].contribution_margin,
                                 RankedRows[i].profit_percentile)
        /\ RowSkus(MoneyLoserRows)
             = { RankedRows[i].sku : i \in { j \in 1..Len(RankedRows) :
                                               RankedRows[j].category = "money_loser" } }
        /\ Len(MoneyLoserRows) = Cardinality(RowSkus(MoneyLoserRows))

\* all ranked skus lose money, so one money loser sits at percentile 1
\* and another below 0.2
C22_Witness ==
    /\ MarginAnalyzed
    /\ \E i, j \in 1..Len(RankedRows) :
          /\ RankedRows[i].category = "money_loser"
          /\ RatioLeq(Ratio(8, 10), RankedRows[i].profit_percentile)
          /\ RankedRows[j].category = "money_loser"
          /\ RatioLess(RankedRows[j].profit_percentile, Ratio(2, 10))


(***************************************************************************)
(* Properties of the pairwise formulas                                     *)
(***************************************************************************)
\* the bundle analysis has returned a result
BundleAnalyzed == "bundle_opportunities" \in DOMAIN results

\* the distinct sessions of the view table that contain the sku
ViewSessions(sku) ==
    { SessionIdOf(product_views[i]) :
        i \in { j \in 1..Len(product_views) : product_views[j].sku = sku } }

\* (co/supportA + co/supportB) / 2 over distinct sessions
ClaimedCorrelation(a, b) ==
    LET co == Cardinality(ViewSessions(a) \cap ViewSessions(b))
        both == AddRatio(Ratio(co, Cardinality(ViewSessions(a))),
                         Ratio(co, Cardinality(ViewSessions(b))))
    IN  Ratio(both.num, 2 * both.den)

PairOf(r) == {r.sku1, r.sku2}

\* the pairs of distinct viewed skus with support on both sides
SupportedPairs ==
    { {a, b} : a, b \in RowSkus(product_views) } \ { {a} : a \in RowSkus(product_views) }

\* C23: every pair of distinct viewed skus with session support on both
\* sides is emitted once with correlation (co/supportA + co/supportB) / 2,
\* support and co-views counted over distinct sessions; no other pair is
\* emitted; and the bundle table holds exactly the emitted pairs whose
\* correlation is at least the configured threshold.
C23_CorrelationIsMeanOfCoViewShares ==
    BundleAnalyzed =>
        /\ { PairOf(CorrelationRows[i]) : i \in 1..Len(CorrelationRows) } = SupportedPairs
        /\ Len(CorrelationRows) = Cardinality(SupportedPairs)
        /\ \A i \in 1..Len(CorrelationRows) :
              LET r == CorrelationRows[i] IN
              /\ r.views_sku1 = Cardinality(ViewSessions(r.sku1))
              /\ r.views_sku2 = Cardinality(ViewSessions(r.sku2))
              /\ r.co_views = Cardinality(ViewSessions(r.sku1) \cap ViewSessions(r.sku2))
              /\ SameRatio(r.correlation, ClaimedCorrelation(r.sku1, r.sku2))
        /\ { PairOf(BundleRows[i]) : i \in 1..Len(BundleRows) }
             = { PairOf(CorrelationRows[i]) :
                   i \in { j \in 1..Len(CorrelationRows) :
                             RatioLeq(BUNDLE_CORRELATION_THRESHOLD,
                                      ClaimedCorrelation(CorrelationRows[j].sku1,
                                                         CorrelationRows[j].sku2)) } }
        /\ \A i, j \in 1..Len(BundleRows) :
              PairOf(BundleRows[i]) = PairOf(BundleRows[j]) => i = j

\* a sku viewed in two sessions and a sku viewed in one of them make a
\* retained pair of correlation 3/4
C23_Witness ==
    /\ BundleAnalyzed
    /\ \E i \in 1..Len(BundleRows) :
          /\ BundleRows[i].views_sku1 # BundleRows[i].views_sku2
          /\ BundleRows[i].co_views = 1
          /\ SameRatio(BundleRows[i].correlation, Ratio(3, 4))


\* the cannibalization analysis has returned a result
CannibalizationAnalyzed == "cannibalization" \in DOMAIN results

\* the distinct customers of the purchase events who bought the sku
Buying(sku) ==
    { customer_overlap[i].customer_id :
        i \in { j \in 1..Len(customer_overlap) : customer_overlap[j].sku = sku } }

\* |customers(A) \cap customers(B)| / |customers(A) \cup customers(B)|
ClaimedOverlap(a, b) ==
    Ratio(Cardinality(Buying(a) \cap Buying(b)), Cardinality(Buying(a) \cup Buying(b)))

\* the pairs of distinct skus of the purchase events
PurchasedPairs ==
    { {a, b} : a, b \in RowSkus(customer_overlap) } \ { {a} : a \in RowSkus(customer_overlap) }

\* C24: every pair of distinct purchased skus is emitted once with overlap
\* |customers(A) \cap customers(B)| / |customers(A) \cup customers(B)| over
\* distinct customers, no other pair is emitted, and the cannibalization
\* table holds exactly the pairs whose overlap is at least the configured
\* threshold, in decreasing order of overlap.
C24_OverlapIsSharedOverAllCustomers ==
    CannibalizationAnalyzed =>
        /\ { PairOf(OverlapRows[i]) : i \in 1..Len(OverlapRows) } = PurchasedPairs
        /\ Len(OverlapRows) = Cardinality(PurchasedPairs)
        /\ \A i \in 1..Len(OverlapRows) :
              LET r == OverlapRows[i] IN
              /\ r.overlap_pct.den > 0
              /\ SameRatio(r.overlap_pct, ClaimedOverlap(r.sku1, r.sku2))
        /\ { PairOf(CannibalRows[i]) : i \in 1..Len(CannibalRows) }
             = { p \in PurchasedPairs :
                   \E a, b \in p :
                      a # b /\ RatioLeq(CANNIBALIZATION_OVERLAP_THRESHOLD, ClaimedOverlap(a, b)) }
        /\ \A i, j \in 1..Len(CannibalRows) :
              /\ PairOf(CannibalRows[i]) = PairOf(CannibalRows[j]) => i = j
              /\ i < j => RatioLeq(CannibalRows[j].overlap_pct, CannibalRows[i].overlap_pct)

\* a customer's purchase is recorded twice, the pair emitted first is
\* retained with an overlap of 6/7 and a pair emitted after it is retained
\* before it with an overlap of 1
C24_Witness ==
    /\ CannibalizationAnalyzed
    /\ HasRepeatedRow(customer_overlap)
    /\ Len(CannibalRows) >= 2
    /\ SameRatio(OverlapRows[1].overlap_pct, Ratio(6, 7))
    /\ PairOf(CannibalRows[1]) # PairOf(OverlapRows[1])
    /\ SameRatio(CannibalRows[1].overlap_pct, Ratio(1, 1))
    /\ \E i \in 2..Len(CannibalRows) : PairOf(CannibalRows[i]) = PairOf(OverlapRows[1])


\* C25: no analysis changes a table it is given: the sales, inventory,
\* product info, view-event and purchase-event tables are after every step
\* of the run what they were before it, with no column added or converted.
C25_InputTablesUnchanged ==
    [][/\ sales_data' = sales_data
       /\ inventory_data' = inventory_data
       /\ product_info' = product_info
       /\ product_views' = product_views
       /\ customer_overlap' = customer_overlap]_vars

====
